---------------------------- MODULE Spec2Model ----------------------------
(***************************************************************************)
(* Razoom-Calculate: the pricing engine of a laser-engraving shop.         *)
(*                                                                         *)
(* The module models                                                       *)
(*   - Interpolation (materials.py): get_keys, get_cost, get_interpolation *)
(*   - ContainerPacking (materials.py): figure_1, figure_2, get_price and  *)
(*     their caller SheetMaterialsTab.material_calculation (main.py)       *)
(*   - DeepEngraving.depth_calculate (calculations.py)                     *)
(*                                                                         *)
(* Python floats are modelled as exact rationals <<numerator, denominator>>*)
(* in lowest terms with a positive denominator; lengths that the program   *)
(* scales by 0.9 are kept in tenths of a millimetre, so that every         *)
(* comparison and floor division is computed exactly.                      *)
(***************************************************************************)
EXTENDS Integers, Sequences, FiniteSets, TLC

VARIABLES
    \* ---- Interpolation instance and the last get_cost / get_keys call
    grid,           \* matrix_config['COSTS']: rows in file (scan) order
    query,          \* arguments of the last call
    keys,           \* value returned by get_keys: <<k>> (a str) or <<k1, k2>>
    lower_index,    \* get_cost's lower_index after the bound search
    bigger_index,   \* get_cost's bigger_index after the bound search
    cost,           \* value returned by get_cost
    \* ---- the last direct call of the static method get_interpolation
    interp,
    \* ---- ContainerPacking instance and material_calculation
    pack,           \* fields of one ContainerPacking instance
    packRet,        \* what the last method call on the instance returned
    calc,           \* results of the last material_calculation
    \* ---- DeepEngraving
    depthRet,       \* the last depth_calculate call and what it returned
    \* ---- ChildPowerSet window
    power,          \* entry, combobox, labels and error box of the window
    \* ---- App.round_result
    rounding,       \* the last round_result call
    \* ---- PersonalCalculateTab
    tab,            \* widgets and attributes of the tab
    \* ---- RatioArea
    ratio,          \* the instance and its last method call
    \* ---- IndustrialCalculateTab.time_calculation
    timeRet,        \* the last time_calculation call
    \* ---- MonochromeBMP
    bmp,            \* the file, the instance and its last method call
    \* ---- App.round_result on two costs
    compare         \* the two costs and their rounded values

vars == <<grid, query, keys, lower_index, bigger_index, cost, interp,
          pack, packRet, calc, depthRet, power, rounding, tab, ratio,
          timeRet, bmp, compare>>

interpVars == <<grid, query, keys, lower_index, bigger_index, cost>>
packVars == <<pack, packRet, calc>>

None == "None"

\* the windows and tabs modelled further down
laterVars == <<bmp, compare>>
LaterIdle ==
    /\ bmp = None
    /\ compare = None

windowVars == <<power, rounding, tab, ratio, timeRet, laterVars>>
WindowsIdle ==
    /\ power = None
    /\ rounding = None
    /\ tab = None
    /\ ratio = None
    /\ timeRet = None
    /\ LaterIdle
baseVars == <<grid, query, keys, lower_index, bigger_index, cost, interp,
              pack, packRet, calc, depthRet>>

-----------------------------------------------------------------------------
(* Exact rational arithmetic standing for Python's float arithmetic.        *)

Abs(x) == IF x < 0 THEN -x ELSE x

RECURSIVE GCD(_, _)
GCD(a, b) == IF b = 0 THEN a ELSE GCD(b, a % b)

\* n/d in lowest terms, d # 0
Rat(n, d) ==
    LET g == GCD(Abs(n), Abs(d))
        s == IF d < 0 THEN -1 ELSE 1
    IN  <<(s * n) \div g, (s * d) \div g>>

FromInt(n) == <<n, 1>>
RAdd(a, b) ==
    LET g == GCD(a[2], b[2])
    IN  Rat(a[1] * (b[2] \div g) + b[1] * (a[2] \div g), (a[2] \div g) * b[2])
RSub(a, b) == RAdd(a, <<-b[1], b[2]>>)
RMul(a, b) == Rat(a[1] * b[1], a[2] * b[2])
RLeq(a, b) == a[1] * b[2] <= b[1] * a[2]

\* Python's int(x) for a rational x: truncation towards zero
Trunc(r) == IF r[1] >= 0 THEN r[1] \div r[2] ELSE -((-r[1]) \div r[2])

\* Python's math.ceil(n / d) for integers n and d # 0
Ceil(n, d) == IF d > 0 THEN -((-n) \div d) ELSE -(n \div (-d))

\* Python's round(r): to the nearest integer, a tie to the even one
PyRound(r) ==
    LET f == r[1] \div r[2]
        twice == 2 * (r[1] - f * r[2])
    IN  IF twice < r[2] THEN f
        ELSE IF twice > r[2] THEN f + 1
        ELSE IF f % 2 = 0 THEN f ELSE f + 1

Max(a, b) == IF a >= b THEN a ELSE b

\* The value standing for an uncaught ZeroDivisionError leaving a call
ZeroDivisionError == <<0, 0>>

-----------------------------------------------------------------------------
(* Interpolation.get_interpolation, materials.py 570-613.                   *)
(* A point is <<x, y>> with x an integer and y a rational.                  *)

\* Fault variant: the two weights exchanged (the weight of y_1 taken from the
\* distance to x_1).
get_interpolation_swapped(point, lower_point, bigger_point) ==
    IF lower_point = bigger_point
    THEN lower_point[2]
    ELSE IF bigger_point[1] = lower_point[1]
         THEN ZeroDivisionError
         ELSE LET span == Abs(bigger_point[1] - lower_point[1])
                  lower_diff == Rat(Abs(point - lower_point[1]), span)
                  bigger_diff == Rat(Abs(point - bigger_point[1]), span)
              IN  RAdd(RMul(lower_diff, lower_point[2]),
                       RMul(bigger_diff, bigger_point[2]))

\* Fault variant: the differences taken without abs().
get_interpolation_noabs(point, lower_point, bigger_point) ==
    IF lower_point = bigger_point
    THEN lower_point[2]
    ELSE IF bigger_point[1] = lower_point[1]
         THEN ZeroDivisionError
         ELSE LET span == bigger_point[1] - lower_point[1]
                  lower_diff == Rat(point - lower_point[1], span)
                  bigger_diff == Rat(point - bigger_point[1], span)
              IN  RAdd(RMul(lower_diff, bigger_point[2]),
                       RMul(bigger_diff, lower_point[2]))

\* Fault variant: two equal points are interpolated like any other pair.
get_interpolation_nodegenerate(point, lower_point, bigger_point) ==
    IF bigger_point[1] = lower_point[1]
    THEN ZeroDivisionError
    ELSE LET span == Abs(bigger_point[1] - lower_point[1])
             lower_diff == Rat(Abs(point - lower_point[1]), span)
             bigger_diff == Rat(Abs(point - bigger_point[1]), span)
         IN  RAdd(RMul(lower_diff, bigger_point[2]),
                  RMul(bigger_diff, lower_point[2]))

\* Fault variant: the price of the lower point is taken whole, unweighted.
get_interpolation_unweighted(point, lower_point, bigger_point) ==
    IF lower_point = bigger_point
    THEN lower_point[2]
    ELSE IF bigger_point[1] = lower_point[1]
         THEN ZeroDivisionError
         ELSE LET span == Abs(bigger_point[1] - lower_point[1])
                  lower_diff == Rat(Abs(point - lower_point[1]), span)
              IN  RAdd(RMul(lower_diff, bigger_point[2]), lower_point[2])

get_interpolation(point, lower_point, bigger_point) ==
    IF lower_point = bigger_point
    THEN lower_point[2]
    ELSE IF bigger_point[1] = lower_point[1]
         THEN ZeroDivisionError
         ELSE LET span == Abs(bigger_point[1] - lower_point[1])
                  lower_diff == Rat(Abs(point - lower_point[1]), span)
                  bigger_diff == Rat(Abs(point - bigger_point[1]), span)
              IN  RAdd(RMul(lower_diff, bigger_point[2]),
                       RMul(bigger_diff, lower_point[2]))


-----------------------------------------------------------------------------
(* The cost matrix.  A row of matrix_config['COSTS'] is                     *)
(*   key   = <<label, width, height>>   (the string "label, width, height") *)
(*   costs = the seven prices of the row                                    *)
(* configparser keeps the rows in file order and keeps keys unique.         *)

numbering_list == <<1, 5, 15, 50, 150, 500, 1000>>

Million == 1000000
InitialLowerKey == <<"", Million, Million>>
InitialBiggerKey == <<"", 0, 0>>

KeyArea(k) == k[2] * k[3]

\* a <= 1_000_000 * 1_000_000, computed without leaving 32 bits
LeqInitialLowerArea(a) ==
    \/ a \div Million < Million
    \/ (a \div Million = Million /\ a % Million = 0)

\* area(k1) <= area(k2) where k2 may still be the initial lower key
AreaLeq(k1, k2) ==
    IF k2 = InitialLowerKey
    THEN LeqInitialLowerArea(KeyArea(k1))
    ELSE KeyArea(k1) <= KeyArea(k2)

\* materials.py 517-524: smallest-area and largest-area rows of the matrix
RECURSIVE ScanExtremes(_, _, _, _)
ScanExtremes(g, i, lower_key, bigger_key) ==
    IF i > Len(g)
    THEN <<lower_key, bigger_key>>
    ELSE LET temp_key == g[i].key
         IN  ScanExtremes(g, i + 1,
                 IF AreaLeq(temp_key, lower_key) THEN temp_key ELSE lower_key,
                 IF KeyArea(temp_key) >= KeyArea(bigger_key)
                 THEN temp_key ELSE bigger_key)

\* Fault variant: a match raises the flag but does not store the matched key.
RECURSIVE ScanBounds_keep(_, _, _, _, _)
ScanBounds_keep(g, i, area, lower_key, bigger_key) ==
    IF i > Len(g)
    THEN [key_get_point |-> FALSE,
          lower_key |-> lower_key, bigger_key |-> bigger_key]
    ELSE LET temp == g[i].key
         IN  IF KeyArea(temp) = area
             THEN [key_get_point |-> TRUE,
                   lower_key |-> lower_key, bigger_key |-> bigger_key]
             ELSE ScanBounds_keep(g, i + 1, area,
                     IF /\ KeyArea(temp) < area
                        /\ KeyArea(temp) >= KeyArea(lower_key)
                     THEN temp ELSE lower_key,
                     IF /\ KeyArea(temp) >= area
                        /\ KeyArea(temp) <= KeyArea(bigger_key)
                     THEN temp ELSE bigger_key)

\* Fault variant: the lower key is the last scanned row below the area, not
\* the greatest one.
RECURSIVE ScanBounds_lastbelow(_, _, _, _, _)
ScanBounds_lastbelow(g, i, area, lower_key, bigger_key) ==
    IF i > Len(g)
    THEN [key_get_point |-> FALSE,
          lower_key |-> lower_key, bigger_key |-> bigger_key]
    ELSE LET temp == g[i].key
         IN  IF KeyArea(temp) = area
             THEN [key_get_point |-> TRUE,
                   lower_key |-> temp, bigger_key |-> bigger_key]
             ELSE ScanBounds_lastbelow(g, i + 1, area,
                     IF KeyArea(temp) < area THEN temp ELSE lower_key,
                     IF /\ KeyArea(temp) >= area
                        /\ KeyArea(temp) <= KeyArea(bigger_key)
                     THEN temp ELSE bigger_key)

\* materials.py 531-549: the bracket of `area`, leaving the loop on a match
RECURSIVE ScanBounds(_, _, _, _, _)
ScanBounds(g, i, area, lower_key, bigger_key) ==
    IF i > Len(g)
    THEN [key_get_point |-> FALSE,
          lower_key |-> lower_key, bigger_key |-> bigger_key]
    ELSE LET temp == g[i].key
         IN  IF KeyArea(temp) = area
             THEN [key_get_point |-> TRUE,
                   lower_key |-> temp, bigger_key |-> bigger_key]
             ELSE ScanBounds(g, i + 1, area,
                     IF /\ KeyArea(temp) < area
                        /\ KeyArea(temp) >= KeyArea(lower_key)
                     THEN temp ELSE lower_key,
                     IF /\ KeyArea(temp) >= area
                        /\ KeyArea(temp) <= KeyArea(bigger_key)
                     THEN temp ELSE bigger_key)

\* Interpolation.get_keys: <<k>> stands for the str, <<k1, k2>> for the list
get_keys(g, width, height) ==
    LET ext == ScanExtremes(g, 1, InitialLowerKey, InitialBiggerKey)
        s == ScanBounds(g, 1, width * height, ext[1], ext[2])
    IN  IF s.key_get_point THEN <<s.lower_key>>
        ELSE IF s.lower_key = s.bigger_key THEN <<s.lower_key>>
        ELSE <<s.lower_key, s.bigger_key>>

\* list[i] with Python's indices: 0-based, negative ones count from the end
PyAt(list, i) == list[IF i < 0 THEN Len(list) + i + 1 ELSE i + 1]

\* list.index(item)
PyIndex(list, item) ==
    (CHOOSE j \in 1..Len(list) :
        /\ list[j] = item
        /\ \A m \in 1..(j - 1) : list[m] # item) - 1

\* Fault variant: the upper bound is overwritten by every rung >= num, so
\* the last such rung wins.
RECURSIVE BoundSearch_lastwins(_, _, _, _)
BoundSearch_lastwins(j, num, li, bi) ==
    IF j > Len(numbering_list)
    THEN <<li, bi>>
    ELSE LET item == numbering_list[j]
         IN  BoundSearch_lastwins(j + 1, num,
                 IF PyAt(numbering_list, li) <= item /\ item <= num
                 THEN PyIndex(numbering_list, item) ELSE li,
                 IF item >= num
                 THEN PyIndex(numbering_list, item) ELSE bi)

\* materials.py 451-457: the bound search over the quantity ladder
RECURSIVE BoundSearch(_, _, _, _)
BoundSearch(j, num, li, bi) ==
    IF j > Len(numbering_list)
    THEN <<li, bi>>
    ELSE LET item == numbering_list[j]
         IN  BoundSearch(j + 1, num,
                 IF PyAt(numbering_list, li) <= item /\ item <= num
                 THEN PyIndex(numbering_list, item) ELSE li,
                 IF PyAt(numbering_list, bi) >= item /\ item >= num
                 THEN PyIndex(numbering_list, item) ELSE bi)

\* temp_cost_config[key]
CostList(g, key) == g[CHOOSE i \in 1..Len(g) : g[i].key = key].costs

\* the quantity-axis interpolation of one row, materials.py 465-469, 479-488
RowCost(cost_list, num, li, bi) ==
    get_interpolation(num,
        <<PyAt(numbering_list, li), FromInt(PyAt(cost_list, li))>>,
        <<PyAt(numbering_list, bi), FromInt(PyAt(cost_list, bi))>>)

\* Interpolation.get_cost(height, width, num)
get_cost(g, height, width, num) ==
    LET lower_and_bigger_key == get_keys(g, height, width)
        idx == BoundSearch(1, num, 0, -1)
        li == idx[1]
        bi == idx[2]
        value ==
            IF Len(lower_and_bigger_key) = 1
            THEN RowCost(CostList(g, lower_and_bigger_key[1]), num, li, bi)
            ELSE LET lower_cost ==
                         RowCost(CostList(g, lower_and_bigger_key[1]),
                                 num, li, bi)
                     bigger_cost ==
                         RowCost(CostList(g, lower_and_bigger_key[2]),
                                 num, li, bi)
                     lower_area == KeyArea(lower_and_bigger_key[1])
                     bigger_area == KeyArea(lower_and_bigger_key[2])
                 IN  IF ZeroDivisionError \in {lower_cost, bigger_cost}
                     THEN ZeroDivisionError
                     ELSE get_interpolation(width * height,
                              <<lower_area, lower_cost>>,
                              <<bigger_area, bigger_cost>>)
    IN  [keys |-> lower_and_bigger_key, lower_index |-> li,
         bigger_index |-> bi, value |-> value]

-----------------------------------------------------------------------------
(* Inputs of the interpolation model.                                       *)

MaxRows == 3        \* rows of a cost matrix
MaxDim == 3         \* width and height of the queried product
MaxQty == 1001      \* quantities 0..MaxQty in the ladder specification

Labels == {"size"}
RowSizes == {<<1, 2>>, <<2, 1>>, <<2, 2>>, <<3, 3>>}
PriceRows == {<<10, 20, 30, 40, 50, 60, 70>>, <<90, 70, 50, 40, 30, 20, 20>>}
QuantitySamples == {0, 1, 3, 5, 10, 15, 40, 50, 100, 150, 450, 500, 750,
                    1000, 1001}

RowKeys == {<<l, s[1], s[2]>> : l \in Labels, s \in RowSizes}
Rows == [key : RowKeys, costs : PriceRows]

RECURSIVE SeqsUpTo(_, _)
SeqsUpTo(S, n) ==
    IF n = 0 THEN {<<>>}
    ELSE LET shorter == SeqsUpTo(S, n - 1)
         IN  shorter \cup {Append(q, x) : q \in shorter, x \in S}

DistinctKeys(g) ==
    \A i, j \in 1..Len(g) : i # j => g[i].key # g[j].key

Grids == {g \in SeqsUpTo(Rows, MaxRows) : Len(g) >= 1 /\ DistinctKeys(g)}
OneRowGrids == {<<r>> : r \in Rows}

NoQuery == [op |-> "none", width |-> 0, height |-> 0, num |-> 0]

InterpIdle ==
    /\ grid = <<>>
    /\ query = NoQuery
    /\ keys = None
    /\ lower_index = None
    /\ bigger_index = None
    /\ cost = None

PrimitiveIdle == interp = None

\* Interpolation(file_name).get_keys(width, height) on a fresh instance
GetKeys ==
    /\ query = NoQuery
    /\ \E w \in 1..MaxDim, h \in 1..MaxDim :
        /\ query' = [op |-> "get_keys", width |-> w, height |-> h, num |-> 0]
        /\ keys' = get_keys(grid, w, h)
    /\ UNCHANGED <<windowVars, grid, lower_index, bigger_index, cost, interp,
                   pack, packRet, calc, depthRet>>

\* Interpolation(file_name).get_cost(height, width, num) on a fresh instance
GetCost(Q) ==
    /\ query = NoQuery
    /\ \E h \in 1..MaxDim, w \in 1..MaxDim, q \in Q :
        LET r == get_cost(grid, h, w, q)
        IN  /\ query' = [op |-> "get_cost",
                         width |-> w, height |-> h, num |-> q]
            /\ keys' = r.keys
            /\ lower_index' = r.lower_index
            /\ bigger_index' = r.bigger_index
            /\ cost' = r.value
    /\ UNCHANGED <<windowVars, grid, interp, pack, packRet, calc, depthRet>>

-----------------------------------------------------------------------------
(* ContainerPacking, materials.py 274-377.                                  *)
(* A material is [width, height, price], the first three fields of its line *)
(* in material_data.ini.  w_big = width * 0.9 is a rational.                *)

\* floor(r / y) for a rational r and an integer y > 0: Python's r // y
RFloor(r, y) == r[1] \div (r[2] * y)

\* ContainerPacking.__init__
ContainerPacking(width, height, mat) ==
    [figure_per_rows |-> 0, figure_per_columns |-> 0,
     total_1 |-> 0, total_2 |-> 0,
     w_big |-> Rat(9 * mat.width, 10), h_big |-> mat.height,
     width |-> width, height |-> height, price |-> mat.price]

\* Fault variant: the counts rounded to the nearest integer (round(a / b))
\* where the method floors them (a // b).
figure_1_rounding(p) ==
    IF p.width = 0
    THEN [p EXCEPT !.total_1 = 0]
    ELSE LET rows == PyRound(RMul(p.w_big, <<1, p.width>>))
         IN  IF p.height = 0
             THEN [p EXCEPT !.figure_per_rows = rows, !.total_1 = 0]
             ELSE LET cols == PyRound(Rat(p.h_big, p.height))
                      rest == RSub(p.w_big, FromInt(rows * p.width))
                      x_2 == PyRound(RMul(rest, <<1, p.height>>))
                      y_2 == PyRound(Rat(p.h_big, p.width))
                      band == IF RLeq(FromInt(p.height), rest)
                              THEN x_2 * y_2 ELSE 0
                  IN  [p EXCEPT !.figure_per_rows = rows,
                                !.figure_per_columns = cols,
                                !.total_1 = p.total_1 + rows * cols + band]

\* ContainerPacking.figure_1: the instance after the call; it returns total_1
figure_1(p) ==
    IF p.width = 0
    THEN [p EXCEPT !.total_1 = 0]
    ELSE LET rows == RFloor(p.w_big, p.width)
         IN  IF p.height = 0
             THEN [p EXCEPT !.figure_per_rows = rows, !.total_1 = 0]
             ELSE LET cols == p.h_big \div p.height
                      rest == RSub(p.w_big, FromInt(rows * p.width))
                      x_2 == RFloor(rest, p.height)
                      y_2 == p.h_big \div p.width
                      band == IF RLeq(FromInt(p.height), rest)
                              THEN x_2 * y_2 ELSE 0
                  IN  [p EXCEPT !.figure_per_rows = rows,
                                !.figure_per_columns = cols,
                                !.total_1 = p.total_1 + rows * cols + band]

\* ContainerPacking.figure_2: the instance after the call; it returns total_2
figure_2(p) ==
    IF p.height = 0
    THEN [p EXCEPT !.total_2 = 0]
    ELSE LET rows == RFloor(p.w_big, p.height)
         IN  IF p.width = 0
             THEN [p EXCEPT !.figure_per_rows = rows, !.total_2 = 0]
             ELSE LET cols == p.h_big \div p.width
                      rest == RSub(p.w_big, FromInt(rows * p.height))
                      x_2 == (p.h_big - rows * p.height) \div p.width
                      y_2 == p.h_big \div p.height
                      band == IF RLeq(FromInt(p.width), rest)
                              THEN x_2 * y_2 ELSE 0
                  IN  [p EXCEPT !.figure_per_rows = rows,
                                !.figure_per_columns = cols,
                                !.total_2 = p.total_2 + rows * cols + band]

\* Fault variant: the price scaled by the trim coefficient 0.9.
get_price_trimmed(p) == (p.price * 9) \div 10

\* ContainerPacking.get_price
get_price(p) == p.price

MaxSheet == 4       \* sheet width and height
MaxItem == 5        \* product width and height
MaxCalls == 3       \* method calls on one ContainerPacking instance

SheetPrices == {1000}
\* the sheets, one of them four times as wide as the others are high
Sheets ==
    [width : (1..MaxSheet) \cup {4 * MaxSheet}, height : 1..MaxSheet,
     price : SheetPrices]

PackIdle ==
    /\ pack = None
    /\ packRet = None

\* instance.figure_1()
Figure1 ==
    /\ packRet.calls < MaxCalls
    /\ pack' = figure_1(pack)
    /\ packRet' = [method |-> "figure_1", value |-> pack'.total_1,
                   calls |-> packRet.calls + 1]
    /\ UNCHANGED <<windowVars, interpVars, interp, calc, depthRet>>

\* instance.figure_2()
Figure2 ==
    /\ packRet.calls < MaxCalls
    /\ pack' = figure_2(pack)
    /\ packRet' = [method |-> "figure_2", value |-> pack'.total_2,
                   calls |-> packRet.calls + 1]
    /\ UNCHANGED <<windowVars, interpVars, interp, calc, depthRet>>

\* instance.get_price()
GetPrice ==
    /\ packRet.calls < MaxCalls
    /\ packRet' = [method |-> "get_price", value |-> get_price(pack),
                   calls |-> packRet.calls + 1]
    /\ UNCHANGED <<windowVars, interpVars, interp, pack, calc, depthRet>>

InitPacking ==
    /\ InterpIdle
    /\ PrimitiveIdle
    /\ calc = None
    /\ WindowsIdle
    /\ depthRet = None
    /\ \E m \in Sheets, w \in 0..MaxItem, h \in 0..MaxItem :
           pack = ContainerPacking(w, h, m)
    /\ packRet = [method |-> None, value |-> None, calls |-> 0]

NextPacking == Figure1 \/ Figure2 \/ GetPrice

SpecPacking == InitPacking /\ [][NextPacking]_vars

-----------------------------------------------------------------------------
(* App.round_result, main.py 157-171.                                       *)

\* Fault variant: the tiers round down to the multiple below.
round_result_down(c) ==
    IF RLeq(FromInt(800), c) THEN Trunc(RMul(c, <<1, 50>>)) * 50
    ELSE IF RLeq(FromInt(250), c) THEN Trunc(RMul(c, <<1, 10>>)) * 10
    ELSE IF RLeq(FromInt(85), c) THEN Trunc(RMul(c, <<1, 5>>)) * 5
    ELSE Trunc(c)

\* Fault variant: the tier of 50 starts at 820, no multiple of 50.
round_result_latetier(c) ==
    IF RLeq(FromInt(820), c) THEN PyRound(RMul(c, <<1, 50>>)) * 50
    ELSE IF RLeq(FromInt(250), c) THEN PyRound(RMul(c, <<1, 10>>)) * 10
    ELSE IF RLeq(FromInt(85), c) THEN PyRound(RMul(c, <<1, 5>>)) * 5
    ELSE Trunc(c)

round_result(c) ==
    IF RLeq(FromInt(800), c) THEN PyRound(RMul(c, <<1, 50>>)) * 50
    ELSE IF RLeq(FromInt(250), c) THEN PyRound(RMul(c, <<1, 10>>)) * 10
    ELSE IF RLeq(FromInt(85), c) THEN PyRound(RMul(c, <<1, 5>>)) * 5
    ELSE Trunc(c)

-----------------------------------------------------------------------------
(* SheetMaterialsTab.material_calculation, main.py 1828-1981.               *)
(* The text of an entry field is <<n>> when int()/float() parse it to n and  *)
(* <<>> when they raise ValueError.                                         *)

Text(n) == <<n>>
BadText == <<>>
Parses(t) == Len(t) = 1
Value(t) == t[1]

\* the results computed from parsed fields, main.py 1858-1918
material_results(f) ==
    LET mat == f.material
        width == Value(f.width)
        height == Value(f.height)
        num == Value(f.num)
        first == figure_1(ContainerPacking(width, height, mat)).total_1
        second == figure_2(ContainerPacking(width, height, mat)).total_2
        total_3 == Max(first, second)
        total_1 == IF total_3 = 0 THEN FromInt(0)
                   ELSE Rat(get_price(ContainerPacking(width, height,
                                                       mat)), total_3)
        total_2 == RMul(total_1, FromInt(num))
        total_4 == IF total_3 = 0 THEN 0 ELSE Ceil(num, total_3)
        design_cost == IF Parses(f.design_cost) THEN Value(f.design_cost)
                       ELSE 0
        raw == get_cost(mat.grid, height, width, num).value
        total_5 == IF raw = ZeroDivisionError THEN 0
                   ELSE IF num = 0 THEN 0
                   ELSE round_result(RMul(raw, Rat(100 - f.discount, 100)))
        total_6 == IF raw = ZeroDivisionError THEN 0
                   ELSE total_5 * num + design_cost
    IN  [total_1 |-> total_1, total_2 |-> total_2, total_3 |-> total_3,
         total_4 |-> total_4, total_5 |-> total_5, total_6 |-> total_6,
         design_cost |-> design_cost]

\* the labels as __init__ draws them: every amount 0
InitialLabels ==
    [total_1 |-> FromInt(0), total_2 |-> FromInt(0), total_3 |-> 0,
     total_4 |-> 0, total_5 |-> 0, total_6 |-> 0, design_cost |-> 0]

\* the handler: the labels it shows, or the error box of line 1969
material_calculation(c) ==
    IF ~(Parses(c.fields.num) /\ Parses(c.fields.width)
                              /\ Parses(c.fields.height))
    THEN [c EXCEPT !.state = "ValueError"]
    ELSE [c EXCEPT !.state = "shown", !.labels = material_results(c.fields)]

MaxNum == 3         \* number of products entered

CalcGrids == {g \in Grids : /\ Len(g) = 2
                            /\ g[1].key = <<"size", 1, 2>>
                            /\ g[1].costs = g[2].costs
                            /\ g[2].key = <<"size", 2, 2>>}
CalcMaterials == {[width |-> m.width, height |-> m.height, price |-> m.price,
                   grid |-> g] : m \in Sheets, g \in CalcGrids}
Discounts == {0, 25}
DesignCosts == {Text(0), Text(7), BadText}
CalcFields == [material : CalcMaterials,
               num : {Text(n) : n \in 0..MaxNum} \cup {BadText},
               width : {Text(n) : n \in 0..MaxItem},
               height : {Text(n) : n \in 0..MaxItem} \cup {BadText},
               discount : Discounts,
               design_cost : DesignCosts]

\* a click on the button bound to material_calculation
MaterialCalculation ==
    /\ calc' = material_calculation(calc)
    /\ UNCHANGED <<windowVars, interpVars, interp, pack, packRet, depthRet>>

InitMaterial ==
    /\ WindowsIdle
    /\ InterpIdle
    /\ PrimitiveIdle
    /\ PackIdle
    /\ depthRet = None
    /\ \E f \in CalcFields :
           calc = [fields |-> f, labels |-> InitialLabels, state |-> "idle"]

SpecMaterial == InitMaterial /\ [][MaterialCalculation]_vars

-----------------------------------------------------------------------------
(* DeepEngraving.depth_calculate, calculations.py 120-175.                  *)
(* config['MAIN'] maps a material name to the text "stepDepth, passes";     *)
(* profile is that text split at ", ", each field a Text.  Depths are exact *)
(* multiples of one length unit.                                            *)

\* what the call produces: a returned list, the implicit None after the
\* logged exception, or an IndexError leaving the call
Returned(comment, result, power_list) ==
    [kind |-> "list", comment |-> comment, result |-> result,
     power_list |-> power_list]
ReturnedNone ==
    [kind |-> "None", comment |-> "", result |-> 0, power_list |-> <<>>]
RaisedIndexError ==
    [kind |-> "IndexError", comment |-> "", result |-> 0, power_list |-> <<>>]

\* Fault variant: the exact-multiple branch keeps count_changes as computed.
depth_plan_nodecrement(step, passes, depth) ==
    IF depth <= step
    THEN Returned("no refocus", Trunc(Rat(depth * passes, step)), <<>>)
    ELSE LET count_changes == depth \div step
             remnant == depth % step
             tail == Trunc(Rat(remnant * passes, step))
             result == count_changes * passes + tail
         IN  IF remnant = 0
             THEN Returned("refocus", result,
                           <<count_changes, passes, step, passes>>)
             ELSE Returned("refocus", result,
                           <<count_changes, passes, step, tail>>)

\* Fault variant: the first test is depth < step.
depth_plan_strict(step, passes, depth) ==
    IF depth < step
    THEN Returned("no refocus", Trunc(Rat(depth * passes, step)), <<>>)
    ELSE LET count_changes == depth \div step
             remnant == depth % step
             tail == Trunc(Rat(remnant * passes, step))
             result == count_changes * passes + tail
         IN  IF remnant = 0
             THEN Returned("refocus", result,
                           <<count_changes - 1, passes, step, passes>>)
             ELSE Returned("refocus", result,
                           <<count_changes, passes, step, tail>>)

\* Fault variant: the passes of the remnant are left out of the total.
depth_plan_notail(step, passes, depth) ==
    IF depth <= step
    THEN Returned("no refocus", Trunc(Rat(depth * passes, step)), <<>>)
    ELSE LET count_changes == depth \div step
             remnant == depth % step
             tail == Trunc(Rat(remnant * passes, step))
             result == count_changes * passes
         IN  IF remnant = 0
             THEN Returned("refocus", result,
                           <<count_changes - 1, passes, step, passes>>)
             ELSE Returned("refocus", result,
                           <<count_changes, passes, step, tail>>)

\* Fault variant: a remnant is reported as one more full cycle of passes.
depth_plan_fullending(step, passes, depth) ==
    IF depth <= step
    THEN Returned("no refocus", Trunc(Rat(depth * passes, step)), <<>>)
    ELSE LET count_changes == depth \div step
             remnant == depth % step
             tail == Trunc(Rat(remnant * passes, step))
             result == count_changes * passes + tail
         IN  IF remnant = 0
             THEN Returned("refocus", result,
                           <<count_changes - 1, passes, step, passes>>)
             ELSE Returned("refocus", result,
                           <<count_changes, passes, step, passes>>)

\* the else: branch of the try, calculations.py 148-175
depth_plan(step, passes, depth) ==
    IF depth <= step
    THEN Returned("no refocus", Trunc(Rat(depth * passes, step)), <<>>)
    ELSE LET count_changes == depth \div step
             remnant == depth % step
             tail == Trunc(Rat(remnant * passes, step))
             result == count_changes * passes + tail
         IN  IF remnant = 0
             THEN Returned("refocus", result,
                           <<count_changes - 1, passes, step, passes>>)
             ELSE Returned("refocus", result,
                           <<count_changes, passes, step, tail>>)

depth_calculate(config, material_name, depth) ==
    IF material_name \notin DOMAIN config
    THEN ReturnedNone                                   \* KeyError, line 140
    ELSE LET profile == config[material_name]
         IN  IF \E i \in 1..Len(profile) : ~Parses(profile[i])
             THEN ReturnedNone                          \* ValueError, line 140
             ELSE IF Len(profile) < 2
             THEN RaisedIndexError                      \* set_depth[1]
             ELSE depth_plan(Value(profile[1]), Value(profile[2]), depth)

MaxStep == 3        \* stepDepth of a profile, in length units
MaxPasses == 3      \* passes of a profile
MaxDepth == 7       \* requested depth, in length units

DepthMaterials == {"steel", "brass"}
Profiles ==
    {<<Text(a), Text(b)>> : a \in 1..MaxStep, b \in 1..MaxPasses}
        \cup {<<Text(a)>> : a \in 1..MaxStep}
        \cup {<<BadText, Text(b)>> : b \in 1..MaxPasses}
        \cup {<<Text(a), Text(b), Text(1)>> : a \in 1..MaxStep,
                                              b \in 1..MaxPasses}
\* deep_engraving.ini holding one material
DepthConfigs == {[n \in {"steel"} |-> p] : p \in Profiles}

DepthIdle == depthRet = None

\* DeepEngraving(material_name).depth_calculate(depth=depth)
DepthCalculate ==
    /\ depthRet' = [depthRet EXCEPT !.called = TRUE,
                       !.out = depth_calculate(depthRet.config,
                                   depthRet.material_name, depthRet.depth)]
    /\ UNCHANGED <<windowVars, interpVars, interp, pack, packRet, calc>>

InitDepth ==
    /\ InterpIdle
    /\ PrimitiveIdle
    /\ PackIdle
    /\ calc = None
    /\ WindowsIdle
    /\ \E c \in DepthConfigs, m \in DepthMaterials, d \in 0..MaxDepth :
           depthRet = [config |-> c, material_name |-> m, depth |-> d,
                       called |-> FALSE, out |-> ReturnedNone]

SpecDepth == InitDepth /\ [][DepthCalculate]_vars

-----------------------------------------------------------------------------
(* Specifications of the interpolation model.                               *)

\* cost matrices of up to MaxRows rows, sampled quantities
InitInterp ==
    /\ grid \in Grids
    /\ query = NoQuery
    /\ keys = None
    /\ lower_index = None
    /\ bigger_index = None
    /\ cost = None
    /\ PrimitiveIdle
    /\ PackIdle
    /\ calc = None
    /\ WindowsIdle
    /\ DepthIdle

NextInterp == GetKeys \/ GetCost(QuantitySamples)

SpecInterp == InitInterp /\ [][NextInterp]_vars

\* one-row cost matrices, every quantity 0..MaxQty
InitLadder ==
    /\ grid \in OneRowGrids
    /\ query = NoQuery
    /\ keys = None
    /\ lower_index = None
    /\ bigger_index = None
    /\ cost = None
    /\ PrimitiveIdle
    /\ PackIdle
    /\ calc = None
    /\ WindowsIdle
    /\ DepthIdle

NextLadder == GetCost(0..MaxQty)

SpecLadder == InitLadder /\ [][NextLadder]_vars

\* direct calls of the static method get_interpolation
MaxCoord == 3       \* coordinates and values handed to get_interpolation

GetInterpolation ==
    /\ interp' = [interp EXCEPT !.called = TRUE,
                     !.result = get_interpolation(interp.point,
                                    interp.lower_point, interp.bigger_point)]
    /\ UNCHANGED <<windowVars, interpVars, pack, packRet, calc, depthRet>>

InitPrimitive ==
    /\ InterpIdle
    /\ PackIdle
    /\ calc = None
    /\ WindowsIdle
    /\ DepthIdle
    /\ \E p \in -1..(MaxCoord + 1), x1 \in 0..MaxCoord, x2 \in 0..MaxCoord,
          y1 \in 0..MaxCoord, y2 \in 0..MaxCoord :
           interp = [point |-> p,
                     lower_point |-> <<x1, FromInt(y1)>>,
                     bigger_point |-> <<x2, FromInt(y2)>>,
                     called |-> FALSE, result |-> FromInt(0)]

SpecPrimitive == InitPrimitive /\ [][GetInterpolation]_vars

-----------------------------------------------------------------------------
(* Properties of Interpolation.                                             *)

QueryArea == query.width * query.height
RowAreas == {KeyArea(grid[i].key) : i \in 1..Len(grid)}
GridKeys == {grid[i].key : i \in 1..Len(grid)}
MaxOf(S) == CHOOSE m \in S : \A x \in S : x <= m
MinOf(S) == CHOOSE m \in S : \A x \in S : m <= x

\* the line through (x1, y1) and (x2, y2) at p, for x1 # x2
StdLerp(p, x1, y1, x2, y2) ==
    RAdd(y1, RMul(Rat(p - x1, x2 - x1), RSub(y2, y1)))

\* row i is the only row of the matrix with the queried area
OnlyRowWithQueryArea(i) ==
    /\ KeyArea(grid[i].key) = QueryArea
    /\ \A j \in 1..Len(grid) : j # i => KeyArea(grid[j].key) # QueryArea

\* C1: exact match.  When the queried area is the area of exactly one row R
\* and the quantity is a rung of the ladder, get_cost returns the price
\* tabulated in R at that rung.
C1_ExactMatch ==
    query.op = "get_cost" =>
        \A i \in 1..Len(grid), r \in 1..Len(numbering_list) :
            (OnlyRowWithQueryArea(i) /\ numbering_list[r] = query.num)
                => cost = FromInt(grid[i].costs[r])

\* a three-row matrix whose second row is the match, at the rung 5
C1_Witness ==
    /\ query.op = "get_cost"
    /\ Len(grid) = 3
    /\ OnlyRowWithQueryArea(2)
    /\ KeyArea(grid[1].key) < QueryArea
    /\ query.num = 5
    /\ cost = FromInt(grid[2].costs[2])

\* the price of the row with key k at the queried quantity, interpolated
\* between the rungs the bound search ended on
C2_RowPrice(k) ==
    LET c == CostList(grid, k)
        x1 == PyAt(numbering_list, lower_index)
        x2 == PyAt(numbering_list, bigger_index)
    IN  IF x1 = x2 THEN FromInt(PyAt(c, lower_index))
        ELSE StdLerp(query.num, x1, FromInt(PyAt(c, lower_index)),
                     x2, FromInt(PyAt(c, bigger_index)))

\* C2: bilinear order.  When get_keys returns a pair, the value get_cost
\* returns is the interpolation on the area axis, at width*height, between
\* the two rows' prices, each interpolated on the quantity axis first.
C2_Bilinear ==
    (query.op = "get_cost" /\ Len(keys) = 2) =>
        cost = StdLerp(QueryArea,
                       KeyArea(keys[1]), C2_RowPrice(keys[1]),
                       KeyArea(keys[2]), C2_RowPrice(keys[2]))

\* a pair of rows with different prices, a quantity strictly between rungs
C2_Witness ==
    /\ query.op = "get_cost"
    /\ Len(keys) = 2
    /\ query.num = 40
    /\ lower_index = 2 /\ bigger_index = 3
    /\ CostList(grid, keys[1]) # CostList(grid, keys[2])
    /\ cost[2] # 1

\* C3: get_keys brackets the queried area tightly.  For an area no row has:
\* strictly inside the range of row areas the result is the pair (a row of
\* the greatest area below, a row of the least area above), whatever the
\* order of the rows; outside the range it is the single nearest row.
C3_TightBracket ==
    (query.op # "none" /\ QueryArea \notin RowAreas) =>
        LET below == {a \in RowAreas : a < QueryArea}
            above == {a \in RowAreas : a > QueryArea}
        IN  /\ \A n \in 1..Len(keys) : keys[n] \in GridKeys
            /\ (below # {} /\ above # {}) =>
                   /\ Len(keys) = 2
                   /\ KeyArea(keys[1]) = MaxOf(below)
                   /\ KeyArea(keys[2]) = MinOf(above)
            /\ below = {} =>
                   Len(keys) = 1 /\ KeyArea(keys[1]) = MinOf(RowAreas)
            /\ above = {} =>
                   Len(keys) = 1 /\ KeyArea(keys[1]) = MaxOf(RowAreas)

\* rows scanned in descending order of area, the bracket being the last two
C3_Witness ==
    /\ query.op = "get_keys"
    /\ Len(grid) = 3
    /\ KeyArea(grid[1].key) = 9
    /\ KeyArea(grid[2].key) = 4
    /\ KeyArea(grid[3].key) = 2
    /\ QueryArea = 6
    /\ keys = <<grid[2].key, grid[1].key>>

\* C4: the bound search on the quantity axis.  For 1 <= num <= 1000 it ends
\* with lower_index at the greatest rung <= num and bigger_index at the
\* least rung >= num.
C4_TightRungs ==
    (query.op = "get_cost" /\ 1 <= query.num /\ query.num <= 1000) =>
        \E i, j \in 1..Len(numbering_list) :
            /\ lower_index = i - 1
            /\ bigger_index = j - 1
            /\ numbering_list[i] <= query.num
            /\ \A m \in 1..Len(numbering_list) :
                   numbering_list[m] <= query.num
                       => numbering_list[m] <= numbering_list[i]
            /\ numbering_list[j] >= query.num
            /\ \A m \in 1..Len(numbering_list) :
                   numbering_list[m] >= query.num
                       => numbering_list[m] >= numbering_list[j]

\* 7 lies between the rungs 5 and 15
C4_Witness ==
    /\ query.op = "get_cost"
    /\ query.num = 7
    /\ lower_index = 1
    /\ bigger_index = 2

InterpX1 == interp.lower_point[1]
InterpX2 == interp.bigger_point[1]
InterpLine ==
    StdLerp(interp.point, InterpX1, interp.lower_point[2],
            InterpX2, interp.bigger_point[2])

\* C5 as stated: for x1 # x2 and every integer point, get_interpolation
\* returns the value at the point of the line through the two points.
C5_LineEverywhere ==
    (interp.called /\ InterpX1 # InterpX2) => interp.result = InterpLine

\* C5 amended: for x1 # x2 and every integer point between x1 and x2
\* (inclusive), get_interpolation returns the value at the point of the line
\* through the two points.
C5_LineBetween ==
    (/\ interp.called
     /\ InterpX1 # InterpX2
     /\ \/ (InterpX1 <= interp.point /\ interp.point <= InterpX2)
        \/ (InterpX2 <= interp.point /\ interp.point <= InterpX1))
        => interp.result = InterpLine

\* a point strictly between two points of different height
C5_Witness ==
    /\ interp.called
    /\ InterpX1 < interp.point
    /\ interp.point < InterpX2
    /\ interp.lower_point[2] # interp.bigger_point[2]
    /\ interp.result = InterpLine

-----------------------------------------------------------------------------
(* Properties of ContainerPacking and material_calculation.                 *)

\* the sheet width the instance was built from: w_big / 0.9
SheetWidth(p) == Rat(10 * p.w_big[1], 9 * p.w_big[2])

\* a fresh instance for the same sheet and the product turned by 90 degrees
Turned(p) ==
    [p EXCEPT !.width = p.height, !.height = p.width,
              !.figure_per_rows = 0, !.figure_per_columns = 0,
              !.total_1 = 0, !.total_2 = 0]

\* C6: figure_2 runs the algorithm of figure_1 on the turned product: for a
\* product (w, h) with positive dimensions, the first figure_2() of a fresh
\* ContainerPacking(w, h, material) returns what the first figure_1() of a
\* fresh ContainerPacking(h, w, material) returns.
C6_SameAlgorithm ==
    (/\ packRet.calls = 1
     /\ packRet.method = "figure_2"
     /\ pack.width > 0
     /\ pack.height > 0)
        => packRet.value = figure_1(Turned(pack)).total_1

\* C7: an oversized product.  With width > sheetWidth and
\* height > sheetHeight, figure_1 and figure_2 both return 0.
C7_Oversized ==
    (/\ packRet.method \in {"figure_1", "figure_2"}
     /\ ~RLeq(FromInt(pack.width), SheetWidth(pack))
     /\ pack.height > pack.h_big)
        => packRet.value = 0

\* both methods called on an instance for an oversized product
C7_Witness ==
    /\ packRet.calls = 2
    /\ packRet.method = "figure_2"
    /\ pack.figure_per_rows = 0
    /\ pack.total_1 = 0
    /\ pack.width = pack.h_big + 1
    /\ ~RLeq(FromInt(pack.width), SheetWidth(pack))
    /\ pack.height > pack.h_big
    /\ packRet.value = 0

\* C8: the per-unit material cost shown by material_calculation is
\* sheetPrice / max(figure_1, figure_2) when that maximum is not 0, and 0
\* with a sheet count of 0 when it is 0; the price is the sheet's price,
\* as get_price hands it on.
C8_UnitMaterialCost ==
    calc.state = "shown" =>
        LET f == calc.fields
            fresh == ContainerPacking(Value(f.width), Value(f.height),
                                      f.material)
            first == figure_1(fresh).total_1
            second == figure_2(fresh).total_2
            total_3 == calc.labels.total_3
        IN  /\ total_3 \in {first, second}
            /\ total_3 >= first
            /\ total_3 >= second
            /\ total_3 # 0 =>
                   calc.labels.total_1 = Rat(f.material.price, total_3)
            /\ total_3 = 0 =>
                   /\ calc.labels.total_1 = FromInt(0)
                   /\ calc.labels.total_4 = 0

\* a product that fits no sheet, three pieces ordered
C8_Witness ==
    /\ calc.state = "shown"
    /\ Value(calc.fields.width) > calc.fields.material.width
    /\ Value(calc.fields.height) > calc.fields.material.height
    /\ Value(calc.fields.num) = 3
    /\ calc.labels.total_3 = 0
    /\ calc.labels.total_1 = FromInt(0)
    /\ calc.labels.total_4 = 0

-----------------------------------------------------------------------------
(* Properties of DeepEngraving.depth_calculate.                             *)

\* the material is in the configuration with a two-number profile
DepthProfileOk ==
    /\ depthRet.material_name \in DOMAIN depthRet.config
    /\ LET profile == depthRet.config[depthRet.material_name]
       IN  Len(profile) = 2 /\ Parses(profile[1]) /\ Parses(profile[2])
StepDepth == Value(depthRet.config[depthRet.material_name][1])
PassesPerStep == Value(depthRet.config[depthRet.material_name][2])

C10_OneStep ==
    (depthRet.called /\ DepthProfileOk /\ depthRet.depth = StepDepth) =>
        /\ depthRet.out.kind = "list"
        /\ depthRet.out.power_list = <<>>
        /\ depthRet.out.result = PassesPerStep

\* one step of depth 2, three passes
C10_Witness ==
    /\ depthRet.called
    /\ DepthProfileOk
    /\ StepDepth = 2
    /\ PassesPerStep = 3
    /\ depthRet.depth = 2
    /\ depthRet.out.power_list = <<>>
    /\ depthRet.out.result = 3

\* floor(x / a * b) for a depth x and a profile (a, b)
FormulaPasses == (depthRet.depth * PassesPerStep) \div StepDepth

-----------------------------------------------------------------------------
(* ChildPowerSet.depth_calculation, child_power_set_window.py 202-301: the  *)
(* handler of the window's button.  power.click keeps what the last click   *)
(* read from the entry and the combobox; showerror is the box it opened,    *)
(* raised the exception that left the handler.                              *)

NoResult == [shown |-> FALSE, comment |-> "", result |-> 0,
             power_list |-> <<>>]
NoClick == [done |-> FALSE, depth |-> BadText, name |-> ""]

\* combo_list after update_combo_data: the materials of the file ("steel"
\* is the only one in DepthConfigs), cmb_depths.current(0) selects it
FirstMaterial(config) == CHOOSE n \in DOMAIN config : TRUE

\* the handler of except (TypeError, ValueError), lines 216-242
DepthInputError(w) ==
    [w EXCEPT !.showerror = "depth",
              !.raised = "none",
              !.lbl_result = NoResult,
              !.ent_depth = BadText,
              !.cmb_depths = FirstMaterial(w.config)]

\* the try and the else: of depth_calculation.  No statement of the try
\* raises KeyError or FileNotFoundError (depth_calculate catches its own
\* KeyError), so the handler of lines 244-271 never runs.
depth_calculation(w) ==
    LET c == [w EXCEPT !.click = [done |-> TRUE, depth |-> w.ent_depth,
                                  name |-> w.cmb_depths]]
    IN  IF ~Parses(w.ent_depth)
        THEN DepthInputError(c)                      \* float(): ValueError
        ELSE LET out == depth_calculate(w.config, w.cmb_depths,
                                        Value(w.ent_depth))
             IN  IF out.kind = "None"
                 THEN DepthInputError(c)     \* unpacking None: TypeError
                 ELSE IF out.kind = "IndexError"
                 THEN [c EXCEPT !.raised = "IndexError",
                                !.showerror = "none"]
                 ELSE [c EXCEPT !.raised = "none",
                                !.showerror = "none",
                                !.lbl_result =
                                    [shown |-> TRUE,
                                     comment |-> out.comment,
                                     result |-> out.result,
                                     power_list |-> out.power_list]]

\* a click on the button of the window
DepthCalculation ==
    /\ power' = depth_calculation(power)
    /\ UNCHANGED <<baseVars, rounding, tab, ratio, timeRet, laterVars>>

InitPower ==
    /\ InterpIdle
    /\ PrimitiveIdle
    /\ PackIdle
    /\ calc = None
    /\ DepthIdle
    /\ rounding = None
    /\ tab = None
    /\ ratio = None
    /\ timeRet = None
    /\ LaterIdle
    /\ \E c \in DepthConfigs, m \in DepthMaterials,
          d \in {Text(x) : x \in 0..MaxDepth} \cup {BadText} :
           power = [config |-> c, ent_depth |-> d, cmb_depths |-> m,
                    lbl_result |-> NoResult, showerror |-> "none",
                    raised |-> "none", click |-> NoClick]

SpecPower == InitPower /\ [][DepthCalculation]_vars

\* the profile of the material the last click read is absent or is not two
\* numbers
ClickedProfileBad ==
    \/ power.click.name \notin DOMAIN power.config
    \/ LET profile == power.config[power.click.name]
       IN  \/ Len(profile) # 2
           \/ \E i \in 1..Len(profile) : ~Parses(profile[i])

\* C12: an unknown material or a malformed profile is reported to the
\* caller as a configuration error.  After a click with a well-formed depth
\* and such a material, no pass count is shown, no exception leaves the
\* handler, and the box shown is the one about the material, never the one
\* about the depth.
C12_ConfigurationError ==
    (/\ power.click.done
     /\ Parses(power.click.depth)
     /\ ClickedProfileBad)
        => /\ ~power.lbl_result.shown
           /\ power.raised = "none"
           /\ power.showerror = "material"

-----------------------------------------------------------------------------
(* Direct calls of App.round_result, main.py 157-171, on costs that are     *)
(* multiples of one half.                                                   *)

\* every part modelled above is out of use
BaseIdle ==
    /\ InterpIdle
    /\ PrimitiveIdle
    /\ PackIdle
    /\ calc = None
    /\ DepthIdle

MaxCost == 860      \* largest cost passed to round_result
MaxLoss == 3        \* the least cost passed to round_result is -MaxLoss

RoundResult ==
    /\ rounding' = [rounding EXCEPT !.called = TRUE,
                                    !.result = round_result(rounding.cost)]
    /\ UNCHANGED <<baseVars, power, tab, ratio, timeRet, laterVars>>

InitRound ==
    /\ BaseIdle
    /\ power = None
    /\ tab = None
    /\ ratio = None
    /\ timeRet = None
    /\ LaterIdle
    /\ \E k \in -(2 * MaxLoss) .. 2 * MaxCost :
           rounding = [cost |-> Rat(k, 2), called |-> FALSE, result |-> 0]

SpecRound == InitRound /\ [][RoundResult]_vars

\* |result - cost| <= half / 2, for a cost n / d
WithinHalf(result, c, half) ==
    2 * Abs(result * c[2] - c[1]) <= half * c[2]

\* result is cost with its fraction dropped (towards zero)
IsTruncation(result, c) ==
    IF c[1] >= 0
    THEN result * c[2] <= c[1] /\ c[1] < (result + 1) * c[2]
    ELSE (result - 1) * c[2] < c[1] /\ c[1] <= result * c[2]

\* C13: the tiers of round_result.  A cost >= 800 gives a multiple of 50
\* within 25 of the cost; 250 <= cost < 800 a multiple of 10 within 5;
\* 85 <= cost < 250 a multiple of 5 within 2.5; any other cost gives its
\* integer truncation.
C13_Tiers ==
    rounding.called =>
        LET c == rounding.cost
            r == rounding.result
        IN  IF c[1] >= 800 * c[2]
            THEN r % 50 = 0 /\ WithinHalf(r, c, 50)
            ELSE IF c[1] >= 250 * c[2]
            THEN r % 10 = 0 /\ WithinHalf(r, c, 10)
            ELSE IF c[1] >= 85 * c[2]
            THEN r % 5 = 0 /\ WithinHalf(r, c, 5)
            ELSE IsTruncation(r, c)

\* a cost half-way between two multiples of 50: 825 gives 800
C13_Witness ==
    /\ rounding.called
    /\ rounding.cost = <<825, 1>>
    /\ rounding.result = 800

-----------------------------------------------------------------------------
(* RatioArea, calculations.py 14-98.  An area is a number <<n, d>> or the   *)
(* empty tuple, which stands for a value that is not a number (a str, None): *)
(* comparing it with area_min raises TypeError.                             *)

NotANumber == <<>>
NoValue == <<>>         \* the method ended without a return statement: None
IsNumber(x) == Len(x) = 2

RatioArea(area_min, area_max, ratio_max, ratio_min) ==
    [area_min |-> area_min, area_max |-> area_max,
     ratio_max |-> ratio_max, ratio_min |-> ratio_min]

RAbs(a) == <<Abs(a[1]), a[2]>>

\* Fault variant: the upper threshold is compared with >.
get_linear_ratio_strict(r, area) ==
    IF ~IsNumber(area)
    THEN <<1, 1>>
    ELSE IF RLeq(area, FromInt(r.area_min))
    THEN r.ratio_min
    ELSE IF RLeq(FromInt(r.area_max), area) /\ area # FromInt(r.area_max)
    THEN r.ratio_max
    ELSE RAdd(RMul(RMul(RSub(area, FromInt(r.area_min)),
                        RAbs(RSub(r.ratio_max, r.ratio_min))),
                   Rat(1, r.area_max - r.area_min)),
              r.ratio_min)

\* calculations.py 41-69
get_linear_ratio(r, area) ==
    IF ~IsNumber(area)
    THEN <<1, 1>>                            \* except TypeError: return 1.0
    ELSE IF RLeq(area, FromInt(r.area_min))
    THEN r.ratio_min
    ELSE IF RLeq(FromInt(r.area_max), area)
    THEN r.ratio_max
    ELSE RAdd(RMul(RMul(RSub(area, FromInt(r.area_min)),
                        RAbs(RSub(r.ratio_max, r.ratio_min))),
                   Rat(1, r.area_max - r.area_min)),
              r.ratio_min)

\* calculations.py 71-98.  The quotient (area - area_min) / (area_max -
\* area_min) is reduced before it is squared, which keeps the exact value
\* and the numbers small.
get_polynomial_ratio(r, area) ==
    IF ~IsNumber(area)
    THEN NoValue                             \* except TypeError: no return
    ELSE IF RLeq(area, FromInt(r.area_min))
    THEN r.ratio_min
    ELSE IF RLeq(FromInt(r.area_max), area)
    THEN r.ratio_max
    ELSE LET part == RMul(RSub(area, FromInt(r.area_min)),
                          Rat(1, r.area_max - r.area_min))
         IN  RAdd(RMul(RSub(r.ratio_max, r.ratio_min), RMul(part, part)),
                  r.ratio_min)


\* direct calls of the two methods on one instance
MaxArea == 4        \* largest area_max and, plus one, largest area passed
RatioValues == {<<1, 2>>, <<1, 1>>, <<2, 1>>, <<5, 2>>}
AreaArguments == {FromInt(a) : a \in 0..MaxArea + 1} \cup {NotANumber}

GetLinearRatio ==
    /\ ~ratio.called
    /\ ratio' = [ratio EXCEPT !.called = TRUE, !.method = "get_linear_ratio",
                     !.result = get_linear_ratio(ratio.self, ratio.area)]
    /\ UNCHANGED <<baseVars, power, rounding, tab, timeRet, laterVars>>

GetPolynomialRatio ==
    /\ ~ratio.called
    /\ ratio' = [ratio EXCEPT !.called = TRUE,
                     !.method = "get_polynomial_ratio",
                     !.result = get_polynomial_ratio(ratio.self, ratio.area)]
    /\ UNCHANGED <<baseVars, power, rounding, tab, timeRet, laterVars>>

InitRatio ==
    /\ BaseIdle
    /\ power = None
    /\ rounding = None
    /\ tab = None
    /\ timeRet = None
    /\ LaterIdle
    /\ \E lo \in 0..MaxArea, hi \in 0..MaxArea, area \in AreaArguments,
          rmax \in RatioValues, rmin \in RatioValues :
           /\ lo < hi
           /\ ratio = [self |-> RatioArea(lo, hi, rmax, rmin),
                       area |-> area, called |-> FALSE, method |-> "",
                       result |-> NoValue]

NextRatio == GetLinearRatio \/ GetPolynomialRatio

SpecRatio == InitRatio /\ [][NextRatio]_vars

\* C18: the fallback of the ratio curves.  Called with an area that is not
\* a number, get_linear_ratio and get_polynomial_ratio each return 1.0.
C18_Fallback ==
    (ratio.called /\ ~IsNumber(ratio.area)) => ratio.result = <<1, 1>>

\* C19: the endpoints of the ratio curves.  With area_min < area_max and
\* any ratio_min, ratio_max, both methods return ratio_min at area_min and
\* ratio_max at area_max.
C19_Endpoints ==
    (ratio.called /\ IsNumber(ratio.area)) =>
        /\ ratio.area = FromInt(ratio.self.area_min)
               => ratio.result = ratio.self.ratio_min
        /\ ratio.area = FromInt(ratio.self.area_max)
               => ratio.result = ratio.self.ratio_max

\* the upper endpoint of a falling line: ratio_max below ratio_min
C19_Witness ==
    /\ ratio.called
    /\ ratio.method = "get_linear_ratio"
    /\ ratio.area = FromInt(ratio.self.area_max)
    /\ ratio.self.ratio_max = <<1, 2>>
    /\ ratio.self.ratio_min = <<2, 1>>
    /\ ratio.result = <<1, 2>>

-----------------------------------------------------------------------------
(* IndustrialCalculateTab.time_calculation, main.py 2275-2391.  The six     *)
(* entries hold a Text or BadText; the three result labels hold numbers.    *)

RDiv(a, b) == Rat(a[1] * b[2], a[2] * b[1])      \* b is not zero

\* the labels after except (ValueError, TypeError, ZeroDivisionError)
TimeInputError(f) ==
    [f EXCEPT !.called = TRUE, !.showerror = TRUE,
              !.black_pixels = <<0, 1>>, !.white_pixels = <<0, 1>>,
              !.flag_rectangle_grav = FALSE,
              !.lbl_result_time_minimum = <<0, 1>>,
              !.lbl_result_time_text = <<0, 1>>,
              !.lbl_result_time_imagine = <<0, 1>>]

\* the try body from line 2310 on, for parsed numbers; flag says whether
\* the rectangle case equalises the three results
TimeResults(f, equalise) ==
    LET width_grav == FromInt(Value(f.ent_width_grav))
        height_grav == FromInt(Value(f.ent_height_grav))
        dpi_grav == FromInt(Value(f.ent_dpi_grav))
        speed_grav == FromInt(Value(f.ent_speed_grav))
        num_grav == FromInt(Value(f.ent_number_grav))
        entered == FromInt(Value(f.ent_black_pixel))
        all_pixels == RMul(RMul(width_grav, height_grav),
                           RMul(dpi_grav, dpi_grav))
        rectangle == entered = <<0, 1>>
        black_pixels == IF rectangle THEN all_pixels ELSE entered
        white_pixels == IF rectangle THEN <<0, 1>>
                        ELSE RSub(all_pixels, entered)
        total == RAdd(black_pixels, white_pixels)
        work == RMul(RMul(width_grav, height_grav),
                     RMul(dpi_grav, num_grav))
    IN  IF total = <<0, 1>> \/ speed_grav = <<0, 1>>
        THEN TimeInputError(f)                       \* ZeroDivisionError
        ELSE LET result ==
                     RAdd(RDiv(RDiv(RMul(work, RDiv(black_pixels, total)),
                                    speed_grav), <<60, 1>>),
                          RDiv(RDiv(RMul(work, RDiv(white_pixels, total)),
                                    <<4000, 1>>), <<60, 1>>))
                 same == rectangle /\ equalise
             IN  [f EXCEPT !.called = TRUE, !.showerror = FALSE,
                      !.black_pixels = black_pixels,
                      !.white_pixels = white_pixels,
                      !.flag_rectangle_grav = rectangle,
                      !.lbl_result_time_minimum = result,
                      !.lbl_result_time_text =
                          IF same THEN result ELSE RDiv(result, <<3, 4>>),
                      !.lbl_result_time_imagine =
                          IF same THEN result ELSE RDiv(result, <<13, 20>>)]

TimeEntries ==
    {"ent_width_grav", "ent_height_grav", "ent_dpi_grav", "ent_speed_grav",
     "ent_number_grav", "ent_black_pixel"}

\* Fault variant: the rectangle case is corrected like a layout.
time_calculation_corrected(f) ==
    IF \E e \in TimeEntries : ~Parses(f[e])
    THEN TimeInputError(f)
    ELSE TimeResults(f, FALSE)

time_calculation(f) ==
    IF \E e \in TimeEntries : ~Parses(f[e])
    THEN TimeInputError(f)                           \* float(): ValueError
    ELSE TimeResults(f, TRUE)

MaxTime == 2        \* largest width, height, dpi, speed and passes entered
MaxBlack == 3       \* largest number of black pixels entered

TimeCalculation ==
    /\ timeRet' = time_calculation(timeRet)
    /\ UNCHANGED <<baseVars, power, rounding, tab, ratio, laterVars>>

InitTime ==
    /\ BaseIdle
    /\ power = None
    /\ rounding = None
    /\ tab = None
    /\ ratio = None
    /\ LaterIdle
    /\ \E w \in 1..MaxTime, h \in 1..MaxTime, dpi \in 0..MaxTime,
          speed \in 0..MaxTime, num \in 1..MaxTime,
          black \in {Text(b) : b \in 0..MaxBlack} \cup {BadText} :
           timeRet = [ent_width_grav |-> Text(w),
                      ent_height_grav |-> Text(h),
                      ent_dpi_grav |-> Text(dpi),
                      ent_speed_grav |-> Text(speed),
                      ent_number_grav |-> Text(num),
                      ent_black_pixel |-> black,
                      called |-> FALSE, showerror |-> FALSE,
                      black_pixels |-> <<0, 1>>, white_pixels |-> <<0, 1>>,
                      flag_rectangle_grav |-> FALSE,
                      lbl_result_time_minimum |-> <<0, 1>>,
                      lbl_result_time_text |-> <<0, 1>>,
                      lbl_result_time_imagine |-> <<0, 1>>]

SpecTime == InitTime /\ [][TimeCalculation]_vars

\* the five dimensions entered are positive numbers
TimePositive ==
    \A e \in TimeEntries \ {"ent_black_pixel"} :
        Parses(timeRet[e]) /\ Value(timeRet[e]) > 0

\* C20: a solid rectangle.  With positive width, height, dpi, passes and
\* speed and 0 black pixels entered, time_calculation counts every pixel of
\* the rectangle as black and none as white, and writes the same time to
\* its three labels.
C20_SolidRectangle ==
    (/\ timeRet.called
     /\ TimePositive
     /\ timeRet.ent_black_pixel = Text(0))
        => /\ ~timeRet.showerror
           /\ timeRet.white_pixels = <<0, 1>>
           /\ timeRet.black_pixels =
                  FromInt(Value(timeRet.ent_width_grav)
                          * Value(timeRet.ent_height_grav)
                          * Value(timeRet.ent_dpi_grav)
                          * Value(timeRet.ent_dpi_grav))
           /\ timeRet.lbl_result_time_text = timeRet.lbl_result_time_minimum
           /\ timeRet.lbl_result_time_imagine
                  = timeRet.lbl_result_time_minimum

\* a 2 x 1 rectangle at 2 lines per mm, 2 passes, speed 1: 8 / 60 minutes
C20_Witness ==
    /\ timeRet.called
    /\ timeRet.ent_black_pixel = Text(0)
    /\ timeRet.ent_width_grav = Text(2)
    /\ timeRet.ent_height_grav = Text(1)
    /\ timeRet.ent_dpi_grav = Text(2)
    /\ timeRet.ent_number_grav = Text(2)
    /\ timeRet.ent_speed_grav = Text(1)
    /\ timeRet.lbl_result_time_minimum = <<2, 15>>
    /\ timeRet.lbl_result_time_imagine = <<2, 15>>

-----------------------------------------------------------------------------
(* PersonalCalculateTab, main.py 548-1605.  tab.ui holds the widgets the    *)
(* handlers read (texts of spinboxes and entries, BooleanVars, states of    *)
(* the two taxation checkbuttons), tab.att the attributes self.ratio_*,     *)
(* self.present_cost, ..., tab.last what the last main_calculation read and *)
(* how it ended.  Ratios and amounts are exact fractions.                   *)

\* settings[0] and settings[1] of __init__: one configuration.  '**' with
\* the exponents many_items = one_set = 1.0 is a division.
main_settings ==
    [MAIN |-> [min_cost |-> 830, additional_cost |-> 40,
               many_items |-> 1, one_set |-> 1],
     RATIO_SETTINGS |->
         [ratio_laser_gas |-> <<2, 1>>,
          ratio_rotation |-> <<3, 2>>,
          ratio_different_layouts |-> <<5, 4>>,
          ratio_timing |-> <<2, 1>>,
          ratio_packing |-> <<11, 10>>,
          ratio_thermal_graving |-> <<3, 2>>,
          ratio_oversize |-> <<7, 5>>,
          ratio_numbering |-> <<6, 5>>,
          ratio_attention |-> <<5, 4>>,
          ratio_hand_job |-> <<13, 10>>,
          ratio_docking |-> <<8, 5>>,
          ratio_taxation |-> << <<6, 5>>, <<11, 10>> >>],
     GRADATION |-> [area |-> << <<2, 1>>, <<3, 1>> >>,
                    difficult |-> << <<1, 1>>, <<3, 2>> >>,
                    depth |-> << <<1, 1>>, <<2, 1>> >>]]
standard_works_costs == [STANDARD |-> [ring |-> 90]]
NoProduct == "none"     \* the combobox entry that selects no standard work

One == <<1, 1>>

\* n ** (-e) for the exponents 0.0 and 1.0; <<0, 0>> is ZeroDivisionError
PowNeg(n, e) ==
    IF e = 0 THEN One ELSE IF n = 0 THEN ZeroDivisionError ELSE Rat(1, n)

\* the checkbuttons without a command, by the name of their BooleanVar
Checkbuttons ==
    {"bool_rotation", "bool_different", "bool_ratio_timing",
     "bool_ratio_packing", "bool_ratio_thermal_graving",
     "bool_ratio_oversize", "bool_ratio_numbering", "bool_ratio_attention",
     "bool_ratio_hand_job", "bool_ratio_docking"}

\* the widgets as __init__ leaves them; reset_tab_mian_calculate restores
\* them, with the three count spinboxes read-only
InitialUi ==
    [combo_products |-> NoProduct,
     rb_type_of_laser |-> 1,
     bool_rotation |-> FALSE,
     bool_different |-> FALSE,
     bool_ratio_timing |-> FALSE,
     bool_ratio_packing |-> FALSE,
     bool_ratio_thermal_graving |-> FALSE,
     bool_ratio_oversize |-> FALSE,
     bool_ratio_numbering |-> FALSE,
     bool_ratio_taxation_ao |-> FALSE,
     bool_ratio_attention |-> FALSE,
     bool_ratio_hand_job |-> FALSE,
     bool_ratio_docking |-> FALSE,
     bool_ratio_taxation_ip |-> FALSE,
     chk_ratio_taxation_ip |-> "enabled",
     chk_ratio_taxation_ooo |-> "enabled",
     spin_number |-> Text(1),
     spin_aim |-> Text(1),
     spin_group |-> Text(1),
     spin_group_to |-> 1,
     spin_state |-> "normal",
     spin_difficult |-> Text(1),
     spin_depth |-> Text(1),
     spin_discount |-> Text(0),
     ent_design |-> BadText,
     ent_height_grav |-> BadText,
     ent_width_grav |-> BadText]

InitialAttributes ==
    [total_cost |-> FromInt(0),
     past_cost |-> FromInt(0),
     present_cost |-> FromInt(0),
     cost_design |-> FromInt(0),
     additional_cost |-> 0,
     ratio_laser |-> One,
     ratio_rotation |-> One,
     ratio_different_layouts |-> One,
     ratio_timing |-> One,
     ratio_packing |-> One,
     ratio_thermal_graving |-> One,
     ratio_oversize |-> One,
     ratio_numbering |-> One,
     ratio_taxation_ao |-> One,
     ratio_taxation_ip |-> One,
     ratio_attention |-> One,
     ratio_hand_job |-> One,
     ratio_docking |-> One,
     ratio_many_items |-> One,
     ratio_difficult |-> One,
     ratio_depth |-> One,
     ratio_discount |-> One,
     ratio_size |-> One,
     ratio_one_set |-> One]

\* the result labels: the numbers formatted into their texts
InitialTabLabels ==
    [lbl_result_grav |-> 0,
     lbl_result_design |-> FromInt(0),
     lbl_present_results |-> FromInt(0),
     lbl_result_cost |-> FromInt(0)]

\* disable_taxation, main.py 1017-1035
disable_taxation_never(ui) == ui       \* Fault variant: nothing is disabled
disable_taxation(ui) ==
    [ui EXCEPT
        !.chk_ratio_taxation_ip =
            IF ui.bool_ratio_taxation_ao THEN "disabled" ELSE "enabled",
        !.chk_ratio_taxation_ooo =
            IF ui.bool_ratio_taxation_ip THEN "disabled" ELSE "enabled"]

\* reset_tab_mian_calculate, main.py 1411-1470
reset_tab_mian_calculate(ui) == [InitialUi EXCEPT !.spin_state = "readonly"]


\* get_ratio_for_calculation, main.py 1167-1364, as the run of its
\* statements over s = [ui, att, exc]: exc is set by the first int() that
\* raises ValueError (or by 0 ** negative), and the statements after it do
\* not run, so att keeps what was assigned before.
SetAtt(s, name, value) == [s EXCEPT !.att[name] = value]
Raise(s) == [s EXCEPT !.exc = TRUE]
Setting(key) == main_settings.RATIO_SETTINGS[key]

\* lines 1174-1204: ratio_size
StepSize(s) ==
    IF ~Parses(s.ui.ent_height_grav) \/ ~Parses(s.ui.ent_width_grav)
    THEN SetAtt(s, "ratio_size", One)            \* except ValueError
    ELSE LET temp_area == FromInt(Value(s.ui.ent_height_grav)
                                  * Value(s.ui.ent_width_grav))
         IN  IF s.ui.rb_type_of_laser = 2
             THEN SetAtt(s, "ratio_size",
                      get_polynomial_ratio(
                          RatioArea(150 * 100, 400 * 680,
                                    main_settings.GRADATION.area[2], One),
                          temp_area))
             ELSE SetAtt(s, "ratio_size",
                      get_linear_ratio(
                          RatioArea(70 * 70, 200 * 200,
                                    main_settings.GRADATION.area[1], One),
                          temp_area))

\* a ratio that depends on its BooleanVar alone
StepToggle(s, name, var, key) ==
    SetAtt(s, name, IF s.ui[var] THEN Setting(key) ELSE One)

\* Fault variant: the ratio follows its BooleanVar whatever the count.
StepGated_ungated(s, name, var, spin, key) ==
    IF s.exc THEN s
    ELSE IF ~s.ui[var] THEN SetAtt(s, name, One)
    ELSE IF ~Parses(s.ui[spin]) THEN Raise(s)
    ELSE SetAtt(s, name, Setting(key))

\* a ratio gated by 'var and int(spin.get()) > 1'; int() is evaluated only
\* when var is set
StepGated(s, name, var, spin, key) ==
    IF s.exc THEN s
    ELSE IF ~s.ui[var] THEN SetAtt(s, name, One)
    ELSE IF ~Parses(s.ui[spin]) THEN Raise(s)
    ELSE SetAtt(s, name,
                IF Value(s.ui[spin]) > 1 THEN Setting(key) ELSE One)

\* lines 1207-1217
StepLaserRotation(s) ==
    IF s.exc THEN s
    ELSE StepToggle(
             SetAtt(s, "ratio_laser",
                    IF s.ui.rb_type_of_laser = 2
                    THEN Setting("ratio_laser_gas") ELSE One),
             "ratio_rotation", "bool_rotation", "ratio_rotation")

\* lines 1228-1256
StepTimingToOversize(s) ==
    IF s.exc THEN s
    ELSE StepToggle(StepToggle(StepToggle(StepToggle(s,
             "ratio_timing", "bool_ratio_timing", "ratio_timing"),
             "ratio_packing", "bool_ratio_packing", "ratio_packing"),
             "ratio_thermal_graving", "bool_ratio_thermal_graving",
             "ratio_thermal_graving"),
             "ratio_oversize", "bool_ratio_oversize", "ratio_oversize")

\* lines 1267-1287
StepTaxationAoToHandJob(s) ==
    IF s.exc THEN s
    ELSE StepToggle(StepToggle(
             SetAtt(s, "ratio_taxation_ao",
                    IF s.ui.bool_ratio_taxation_ao
                    THEN Setting("ratio_taxation")[1] ELSE One),
             "ratio_attention", "bool_ratio_attention", "ratio_attention"),
             "ratio_hand_job", "bool_ratio_hand_job", "ratio_hand_job")

\* lines 1296-1302
StepTaxationIp(s) ==
    IF s.exc THEN s
    ELSE SetAtt(s, "ratio_taxation_ip",
                IF s.ui.bool_ratio_taxation_ip
                THEN Setting("ratio_taxation")[2] ELSE One)

\* lines 1304-1310: additional_cost
StepAdditionalCost(s) ==
    IF s.exc THEN s
    ELSE IF ~Parses(s.ui.spin_aim) THEN Raise(s)
    ELSE SetAtt(s, "additional_cost",
                IF Value(s.ui.spin_aim) > 1
                THEN (Value(s.ui.spin_aim) - 1)
                         * main_settings.MAIN.additional_cost
                ELSE 0)

\* lines 1312-1319: ratio_many_items
StepManyItems(s) ==
    IF s.exc THEN s
    ELSE IF ~Parses(s.ui.spin_number) THEN Raise(s)
    ELSE LET n == Value(s.ui.spin_number)
             inverse == PowNeg(n, main_settings.MAIN.many_items)
         IN  IF n = 1 THEN SetAtt(s, "ratio_many_items", One)
             ELSE IF 1 < n /\ n <= 5
             THEN SetAtt(s, "ratio_many_items", RSub(One, Rat(n, 10)))
             ELSE IF inverse = ZeroDivisionError THEN Raise(s)
             ELSE SetAtt(s, "ratio_many_items", RMul(<<17, 20>>, inverse))

\* lines 1321-1326: ratio_one_set
StepOneSet(s) ==
    IF s.exc THEN s
    ELSE IF ~Parses(s.ui.spin_group) THEN Raise(s)
    ELSE LET g == Value(s.ui.spin_group)
             inverse == PowNeg(g, main_settings.MAIN.one_set)
         IN  IF g = 1 THEN SetAtt(s, "ratio_one_set", One)
             ELSE IF inverse = ZeroDivisionError THEN Raise(s)
             ELSE SetAtt(s, "ratio_one_set", inverse)

\* lines 1328-1338: the two read-only gradation spinboxes
StepGradation(s) ==
    IF s.exc THEN s
    ELSE SetAtt(SetAtt(s, "ratio_difficult",
                    PyAt(main_settings.GRADATION.difficult,
                         Value(s.ui.spin_difficult) - 1)),
                "ratio_depth",
                PyAt(main_settings.GRADATION.depth,
                     Value(s.ui.spin_depth) - 1))

\* lines 1340-1362: cost_design and ratio_discount, each in its own try
StepDesignDiscount(s) ==
    IF s.exc THEN s
    ELSE SetAtt(SetAtt(s, "cost_design",
                    IF Parses(s.ui.ent_design)
                    THEN FromInt(Value(s.ui.ent_design)) ELSE FromInt(0)),
                "ratio_discount",
                IF Parses(s.ui.spin_discount)
                THEN RSub(One, Rat(Value(s.ui.spin_discount), 100))
                ELSE One)

get_ratio_for_calculation(ui, att) ==
    LET s0 == [ui |-> ui, att |-> att, exc |-> FALSE]
        s1 == StepLaserRotation(StepSize(s0))
        s2 == StepGated(s1, "ratio_different_layouts", "bool_different",
                        "spin_number", "ratio_different_layouts")
        s3 == StepTimingToOversize(s2)
        s4 == StepGated(s3, "ratio_numbering", "bool_ratio_numbering",
                        "spin_number", "ratio_numbering")
        s5 == StepTaxationAoToHandJob(s4)
        s6 == StepGated(s5, "ratio_docking", "bool_ratio_docking",
                        "spin_aim", "ratio_docking")
        s7 == StepAdditionalCost(StepTaxationIp(s6))
        s8 == StepOneSet(StepManyItems(s7))
    IN  StepDesignDiscount(StepGradation(s8))

\* lines 1089-1101: main_cost from the attributes
MainCost(base_cost, a) ==
    LET product ==
            RMul(RMul(RMul(RMul(RMul(RMul(RMul(a.ratio_laser,
                a.ratio_rotation), a.ratio_different_layouts),
                a.ratio_timing), a.ratio_packing),
                a.ratio_thermal_graving), a.ratio_oversize),
                a.ratio_numbering)
        product2 ==
            RMul(RMul(RMul(RMul(RMul(RMul(product, a.ratio_attention),
                a.ratio_hand_job), a.ratio_docking), a.ratio_difficult),
                a.ratio_depth), a.ratio_size)
        base == RAdd(FromInt(a.additional_cost),
                     RMul(FromInt(base_cost), product2))
    IN  RMul(RMul(RMul(RMul(RMul(base, a.ratio_taxation_ao),
            a.ratio_taxation_ip), a.ratio_many_items), a.ratio_one_set),
            a.ratio_discount)

\* lines 1075-1087: the cost the ratios multiply
BaseCost(ui) ==
    IF ui.combo_products = NoProduct THEN main_settings.MAIN.min_cost
    ELSE standard_works_costs.STANDARD[ui.combo_products]

\* Fault variant: the amount is rounded after the multiplication.
AllCost_late(main_cost, number, cost_design) ==
    RAdd(FromInt(round_result(RMul(main_cost, FromInt(number)))),
         cost_design)

\* lines 1114-1116: all_cost
AllCost(main_cost, number, cost_design) ==
    RAdd(FromInt(round_result(main_cost) * number), cost_design)

\* the attribute each BooleanVar switches
ToggleRatio ==
    [bool_rotation |-> "ratio_rotation",
     bool_different |-> "ratio_different_layouts",
     bool_ratio_timing |-> "ratio_timing",
     bool_ratio_packing |-> "ratio_packing",
     bool_ratio_thermal_graving |-> "ratio_thermal_graving",
     bool_ratio_oversize |-> "ratio_oversize",
     bool_ratio_numbering |-> "ratio_numbering",
     bool_ratio_taxation_ao |-> "ratio_taxation_ao",
     bool_ratio_attention |-> "ratio_attention",
     bool_ratio_hand_job |-> "ratio_hand_job",
     bool_ratio_docking |-> "ratio_docking",
     bool_ratio_taxation_ip |-> "ratio_taxation_ip"]

\* on entry some unselected toggle still has the ratio of an earlier call
UsedEarlier(ui, att) ==
    \E b \in DOMAIN ToggleRatio : ~ui[b] /\ att[ToggleRatio[b]] # One

\* what the last press of the button since the results were reset read:
\* the widgets, whether an earlier ratio was still stored, and whether the
\* amount was computed
NoCall ==
    [called |-> FALSE, computed |-> FALSE, ui |-> InitialUi,
     used_earlier |-> FALSE]

\* main_calculation, main.py 1068-1165
main_calculation(t) ==
    LET base_cost == BaseCost(t.ui)
        s == get_ratio_for_calculation(t.ui, t.att)
    IN  IF s.exc
        THEN [t EXCEPT !.att = s.att,            \* except Exception: log
                       !.last = [called |-> TRUE, computed |-> FALSE,
                                 ui |-> t.ui,
                                 used_earlier |->
                                     UsedEarlier(t.ui, t.att)]]
        ELSE LET main_cost == MainCost(base_cost, s.att)
                 all_cost == AllCost(main_cost, Value(t.ui.spin_number),
                                     s.att.cost_design)
             IN  [t EXCEPT
                    !.att = [s.att EXCEPT !.present_cost = all_cost],
                    !.lbl = [lbl_result_grav |-> round_result(main_cost),
                             lbl_result_design |-> s.att.cost_design,
                             lbl_present_results |-> all_cost,
                             lbl_result_cost |->
                                 RAdd(t.att.total_cost, all_cost)],
                    !.last = [called |-> TRUE, computed |-> TRUE,
                              ui |-> t.ui,
                              used_earlier |->
                                  UsedEarlier(t.ui, t.att)]]

\* Fault variant: the total takes the amount instead of growing by it.
add_new_calc_lastonly(t) ==
    [t EXCEPT
        !.att = [t.att EXCEPT
                    !.past_cost = t.att.present_cost,
                    !.total_cost = t.att.present_cost,
                    !.present_cost = FromInt(0)],
        !.past_cost_text = Append(t.past_cost_text, t.att.present_cost),
        !.lbl = [t.lbl EXCEPT !.lbl_present_results = FromInt(0),
                              !.lbl_result_grav = 0,
                              !.lbl_result_design = FromInt(0)],
        !.ui = reset_tab_mian_calculate(t.ui)]

\* add_new_calc, main.py 1366-1409
add_new_calc(t) ==
    [t EXCEPT
        !.att = [t.att EXCEPT
                    !.past_cost = t.att.present_cost,
                    !.total_cost = RAdd(t.att.total_cost,
                                        t.att.present_cost),
                    !.present_cost = FromInt(0)],
        !.past_cost_text = Append(t.past_cost_text, t.att.present_cost),
        !.lbl = [t.lbl EXCEPT !.lbl_present_results = FromInt(0),
                              !.lbl_result_grav = 0,
                              !.lbl_result_design = FromInt(0)],
        !.ui = reset_tab_mian_calculate(t.ui)]

\* reset_results, main.py 1472-1509
reset_results(t) ==
    [t EXCEPT
        !.att = [t.att EXCEPT !.past_cost = FromInt(0),
                              !.present_cost = FromInt(0),
                              !.total_cost = FromInt(0)],
        !.past_cost_text = <<>>,
        !.lbl = InitialTabLabels,
        !.last = NoCall,
        !.ui = reset_tab_mian_calculate(t.ui)]


\* what the user can do to the widgets between two button presses
MaxEdits == 2       \* widget edits and checkbutton clicks in one run
MaxSpinEdits == 3   \* the same where only the count spinboxes are edited

NumberTexts == {Text(1), Text(2), Text(6)}
AimTexts == {Text(1), Text(2)}
GroupTexts == {Text(1), Text(2)}
DiscountTexts == {Text(0), Text(20)}
GradationTexts == {Text(1), Text(2)}
DesignTexts == {BadText, Text(50)}
\* height and width of the engraving: none, 100 x 100, 350 x 410
SizeTexts ==
    {<<BadText, BadText>>, <<Text(100), Text(100)>>,
     <<Text(350), Text(410)>>}
Products == {NoProduct, "ring"}

\* the tab after one edit of the widget named w
Edited(w, value) == [tab EXCEPT !.ui[w] = value, !.edits = tab.edits + 1]
CanEdit(w, value) == tab.edits < tab.budget /\ tab.ui[w] # value
OthersUnchanged ==
    UNCHANGED <<baseVars, power, rounding, ratio, timeRet, laterVars>>

\* a typed text while the spinbox is editable, the arrows otherwise
Typed(texts) ==
    IF tab.ui.spin_state = "normal" THEN texts \cup {BadText} ELSE texts

ClickCheckbutton ==
    \E b \in Checkbuttons :
        /\ tab.edits < tab.budget
        /\ tab' = Edited(b, ~tab.ui[b])
        /\ OthersUnchanged
SelectLaser ==
    \E v \in {1, 2} :
        /\ CanEdit("rb_type_of_laser", v)
        /\ tab' = Edited("rb_type_of_laser", v)
        /\ OthersUnchanged
SelectProduct ==
    \E p \in Products :
        /\ CanEdit("combo_products", p)
        /\ tab' = Edited("combo_products", p)
        /\ OthersUnchanged
EditSpinNumber ==
    \E t \in Typed(NumberTexts) :
        /\ CanEdit("spin_number", t)
        /\ tab' = Edited("spin_number", t)
        /\ OthersUnchanged
EditSpinAim ==
    \E t \in Typed(AimTexts) :
        /\ CanEdit("spin_aim", t)
        /\ tab' = Edited("spin_aim", t)
        /\ OthersUnchanged
EditSpinGroup ==
    \E t \in Typed(GroupTexts) :
        /\ CanEdit("spin_group", t)
        /\ tab.ui.spin_state = "readonly"
               => Value(t) <= tab.ui.spin_group_to
        /\ tab' = Edited("spin_group", t)
        /\ OthersUnchanged
SetDiscount ==
    \E t \in DiscountTexts :
        /\ CanEdit("spin_discount", t)
        /\ tab' = Edited("spin_discount", t)
        /\ OthersUnchanged
SetDifficult ==
    \E t \in GradationTexts :
        /\ CanEdit("spin_difficult", t)
        /\ tab' = Edited("spin_difficult", t)
        /\ OthersUnchanged
SetDepth ==
    \E t \in GradationTexts :
        /\ CanEdit("spin_depth", t)
        /\ tab' = Edited("spin_depth", t)
        /\ OthersUnchanged
EditDesign ==
    \E t \in DesignTexts :
        /\ CanEdit("ent_design", t)
        /\ tab' = Edited("ent_design", t)
        /\ OthersUnchanged
EditSize ==
    \E hw \in SizeTexts :
        /\ tab.edits < tab.budget
        /\ <<tab.ui.ent_height_grav, tab.ui.ent_width_grav>> # hw
        /\ tab' = [tab EXCEPT !.ui.ent_height_grav = hw[1],
                              !.ui.ent_width_grav = hw[2],
                              !.edits = tab.edits + 1]
        /\ OthersUnchanged

\* bind_spins, main.py 1595-1605: the pointer enters spin_group; a quantity
\* that does not parse raises ValueError in the callback
BindSpins ==
    /\ Parses(tab.ui.spin_number)
    /\ tab.ui.spin_group_to # Value(tab.ui.spin_number)
    /\ tab' = [tab EXCEPT !.ui.spin_group_to = Value(tab.ui.spin_number)]
    /\ OthersUnchanged

\* a click on an enabled taxation checkbutton toggles its variable and runs
\* its command, disable_taxation; a disabled one ignores the click
ClickTaxationOoo ==
    /\ tab.edits < tab.budget
    /\ tab.ui.chk_ratio_taxation_ooo = "enabled"
    /\ tab' = [tab EXCEPT !.ui = disable_taxation(
                   [tab.ui EXCEPT !.bool_ratio_taxation_ao =
                                      ~tab.ui.bool_ratio_taxation_ao]),
                          !.edits = tab.edits + 1]
    /\ OthersUnchanged

ClickTaxationIp ==
    /\ tab.edits < tab.budget
    /\ tab.ui.chk_ratio_taxation_ip = "enabled"
    /\ tab' = [tab EXCEPT !.ui = disable_taxation(
                   [tab.ui EXCEPT !.bool_ratio_taxation_ip =
                                      ~tab.ui.bool_ratio_taxation_ip]),
                          !.edits = tab.edits + 1]
    /\ OthersUnchanged

MainCalculation ==
    /\ tab' = main_calculation(tab)
    /\ OthersUnchanged

ResetResults ==
    /\ tab' = reset_results(tab)
    /\ OthersUnchanged

InitTab ==
    /\ BaseIdle
    /\ power = None
    /\ rounding = None
    /\ ratio = None
    /\ timeRet = None
    /\ LaterIdle
    /\ tab = [ui |-> InitialUi, att |-> InitialAttributes,
              lbl |-> InitialTabLabels, last |-> NoCall,
              past_cost_text |-> <<>>, edits |-> 0,
              budget |-> MaxEdits]

NextTab ==
    \/ ClickCheckbutton
    \/ SelectLaser
    \/ SelectProduct
    \/ EditSpinNumber
    \/ EditSpinAim
    \/ EditSpinGroup
    \/ SetDiscount
    \/ SetDifficult
    \/ SetDepth
    \/ EditDesign
    \/ EditSize
    \/ BindSpins
    \/ ClickTaxationOoo
    \/ ClickTaxationIp
    \/ MainCalculation
    \/ ResetResults

SpecTab == InitTab /\ [][NextTab]_vars


-----------------------------------------------------------------------------
(* Properties of PersonalCalculateTab.                                      *)

GatedByNumber == {"ratio_different_layouts", "ratio_numbering"}

\* C15: after a calculation that computed an amount, the different-layouts
\* and numbering ratios are 1 when the quantity read was 1, the docking
\* ratio is 1 and the aim surcharge 0 when the aim count read was 1, and the
\* ratio of every toggle that was not selected is 1 (the gas laser ratio
\* included), whatever the attributes held on entry.
C15_RatioGates ==
    (tab.last.called /\ tab.last.computed) =>
        LET u == tab.last.ui
            a == tab.att
        IN  /\ Value(u.spin_number) = 1 =>
                   \A name \in GatedByNumber : a[name] = One
            /\ Value(u.spin_aim) = 1 =>
                   a.ratio_docking = One /\ a.additional_cost = 0
            /\ \A b \in DOMAIN ToggleRatio :
                   ~u[b] => a[ToggleRatio[b]] = One
            /\ u.rb_type_of_laser = 1 => a.ratio_laser = One

\* different layouts and docking selected with quantity 1 and one aim, after
\* a toggle of an earlier calculation was taken back
C15_Witness ==
    /\ tab.last.called
    /\ tab.last.computed
    /\ tab.last.used_earlier
    /\ tab.last.ui.bool_different
    /\ Value(tab.last.ui.spin_number) = 1
    /\ Value(tab.last.ui.spin_aim) = 1
    /\ tab.att.ratio_different_layouts = One
    /\ tab.att.additional_cost = 0
    /\ \A b \in DOMAIN ToggleRatio :
           ~tab.last.ui[b] => tab.att[ToggleRatio[b]] = One

\* C16: the two taxation modes are never both selected, and while one is
\* selected the checkbutton of the other is disabled.
C16_TaxExclusive ==
    /\ ~(tab.ui.bool_ratio_taxation_ao /\ tab.ui.bool_ratio_taxation_ip)
    /\ tab.ui.bool_ratio_taxation_ao =>
           tab.ui.chk_ratio_taxation_ip = "disabled"
    /\ tab.ui.bool_ratio_taxation_ip =>
           tab.ui.chk_ratio_taxation_ooo = "disabled"

\* the first mode was clicked on and a calculation used it
C16_Witness ==
    /\ tab.ui.bool_ratio_taxation_ao
    /\ ~tab.ui.bool_ratio_taxation_ip
    /\ tab.ui.chk_ratio_taxation_ip = "disabled"
    /\ tab.ui.chk_ratio_taxation_ooo = "enabled"
    /\ tab.last.computed
    /\ tab.att.ratio_taxation_ao = Setting("ratio_taxation")[1]

\* the numeric fields main_calculation reads
NumericFields ==
    {"spin_number", "spin_aim", "spin_group", "ent_height_grav",
     "ent_width_grav", "ent_design", "spin_discount"}

\* C17: a press of the button with a numeric field that does not parse
\* still computes an amount, and present_cost is that amount.
C17_RecoveredLocally ==
    (/\ tab.last.called
     /\ \E w \in NumericFields : ~Parses(tab.last.ui[w])) =>
        /\ tab.last.computed
        /\ tab.att.present_cost =
               AllCost(MainCost(BaseCost(tab.last.ui), tab.att),
                       Value(tab.last.ui.spin_number), tab.att.cost_design)


-----------------------------------------------------------------------------
(* The two tabs of one window side by side: each button computes its own    *)
(* amount, main_calculation from the widgets of PersonalCalculateTab and     *)
(* material_calculation from the fields of SheetMaterialsTab.               *)

\* the sheet tab holds a 1 x 2 product on a 2 x 2 sheet
AmountFields ==
    {f \in CalcFields : /\ f.material.width = 2
                        /\ f.material.height = 2
                        /\ f.width = Text(1)
                        /\ f.height = Text(2)}

InitAmounts ==
    /\ InterpIdle
    /\ PrimitiveIdle
    /\ PackIdle
    /\ depthRet = None
    /\ power = None
    /\ rounding = None
    /\ ratio = None
    /\ timeRet = None
    /\ LaterIdle
    /\ tab = [ui |-> InitialUi, att |-> InitialAttributes,
              lbl |-> InitialTabLabels, last |-> NoCall,
              past_cost_text |-> <<>>, edits |-> 0,
              budget |-> MaxEdits]
    /\ \E f \in AmountFields :
           calc = [fields |-> f, labels |-> InitialLabels, state |-> "idle"]

NextAmounts ==
    \/ SelectProduct
    \/ EditSpinNumber
    \/ SetDiscount
    \/ EditDesign
    \/ MainCalculation
    \/ MaterialCalculation

SpecAmounts == InitAmounts /\ [][NextAmounts]_vars

\* C14: the amount of the current calculation is round_result of the unit
\* cost, times the quantity, plus the design cost; the batch total of the
\* sheet tab is round_result of the discounted unit price, times the
\* quantity, plus the design cost.
C14_RoundBeforeMultiply ==
    /\ (tab.last.called /\ tab.last.computed) =>
           LET unitCost == MainCost(BaseCost(tab.last.ui), tab.att)
               quantity == Value(tab.last.ui.spin_number)
               amount == RAdd(FromInt(round_result(unitCost) * quantity),
                              tab.att.cost_design)
           IN  /\ tab.att.present_cost = amount
               /\ tab.lbl.lbl_present_results = amount
    /\ calc.state = "shown" =>
           LET f == calc.fields
               quantity == Value(f.num)
               price == get_cost(f.material.grid, Value(f.height),
                                 Value(f.width), quantity).value
           IN  (price # ZeroDivisionError /\ quantity > 0) =>
                   calc.labels.total_6 =
                       round_result(RMul(price, Rat(100 - f.discount, 100)))
                           * quantity + calc.labels.design_cost

\* both buttons pressed for several pieces where rounding the multiplied
\* amount would give another total
C14_Witness ==
    /\ tab.last.called
    /\ tab.last.computed
    /\ calc.state = "shown"
    /\ LET unitCost == MainCost(BaseCost(tab.last.ui), tab.att)
           quantity == Value(tab.last.ui.spin_number)
       IN  /\ quantity > 1
           /\ round_result(RMul(unitCost, FromInt(quantity)))
                  # round_result(unitCost) * quantity
           /\ tab.att.present_cost =
                  RAdd(FromInt(round_result(unitCost) * quantity),
                       tab.att.cost_design)
    /\ LET f == calc.fields
           quantity == Value(f.num)
           price == get_cost(f.material.grid, Value(f.height),
                             Value(f.width), quantity).value
           discounted == RMul(price, Rat(100 - f.discount, 100))
       IN  /\ quantity > 1
           /\ price # ZeroDivisionError
           /\ round_result(RMul(discounted, FromInt(quantity)))
                  # round_result(discounted) * quantity
           /\ calc.labels.total_6 =
                  round_result(discounted) * quantity
                      + calc.labels.design_cost


-----------------------------------------------------------------------------
(* MonochromeBMP, bmp_read.py 12-164.                                       *)
(* A file is absent or holds a header and the bytes of its pixel array.     *)
(* The header is known by the number of its fields up to which the file is  *)
(* long enough (width, height, the two resolutions: int.from_bytes of the    *)
(* bytes read after the end of the file is 0 and raises nothing).  The       *)
(* pixel array is known by its data bytes in reading order; the alignment    *)
(* bytes skipped by f.read(padding) carry no information.                   *)

MaxWidth == 9       \* widest image, in pixels
MaxHeight == 2      \* tallest image, in rows
ByteValues == {0, 160, 255}
Resolutions == {0, 2}       \* pixels per metre in the header

MaxBytes == 2       \* most data bytes present in the pixel array

\* (self.width + 7) // 8
RowSize(width) == (width + 7) \div 8

\* byte_value & (1 << (7 - bit)), as 1 or 0
Bit(byte_value, bit) == (byte_value \div (2 ^ (7 - bit))) % 2

\* lines 84-92: the row decoded from its row_size bytes
RECURSIVE DecodeRow(_, _, _)
DecodeRow(bytes, width, x) ==
    IF x >= Len(bytes) THEN <<>>
    ELSE LET bits == [b \in 1..8 |-> Bit(bytes[x + 1], b - 1)]
             kept == IF x * 8 + 8 <= width THEN 8
                     ELSE IF width > x * 8 THEN width - x * 8 ELSE 0
         IN  SubSeq(bits, 1, kept) \o DecodeRow(bytes, width, x + 1)

\* lines 83-94: rows y .. height-1 read from data; f.read(1) at the end of
\* the file returns b'' and ord(b'') raises TypeError, which leaves the rows
\* appended so far in pixel_data
RECURSIVE ReadRows(_, _, _, _, _)
ReadRows(data, width, height, y, pixel_data) ==
    IF y >= height THEN [pixel_data |-> pixel_data, raised |-> FALSE]
    ELSE IF Len(data) < RowSize(width)
    THEN [pixel_data |-> pixel_data, raised |-> TRUE]
    ELSE ReadRows(SubSeq(data, RowSize(width) + 1, Len(data)), width,
                  height, y + 1,
                  Append(pixel_data,
                         DecodeRow(SubSeq(data, 1, RowSize(width)),
                                   width, 0)))

\* __init__ and _read_bmp, lines 27-101
MonochromeBMP(file) ==
    IF ~file.exists                         \* open(): FileNotFoundError
    THEN [width |-> 0, height |-> 0, pixel_data |-> <<>>,
          has_resolution |-> FALSE,         \* the attributes do not exist
          x_pixels_per_meter |-> 0, y_pixels_per_meter |-> 0,
          logged |-> TRUE]
    ELSE LET width == IF file.fields >= 1 THEN file.width ELSE 0
             height == IF file.fields >= 2 THEN file.height ELSE 0
             x_ppm == IF file.fields >= 3 THEN file.x_ppm ELSE 0
             y_ppm == IF file.fields >= 4 THEN file.y_ppm ELSE 0
             rows == ReadRows(file.data, width, height, 0, <<>>)
         IN  [width |-> width, height |-> height,
              pixel_data |-> rows.pixel_data, has_resolution |-> TRUE,
              x_pixels_per_meter |-> x_ppm, y_pixels_per_meter |-> y_ppm,
              logged |-> rows.raised]

RECURSIVE CountIn(_, _)
CountIn(row, v) ==
    IF row = <<>> THEN 0
    ELSE (IF Head(row) = v THEN 1 ELSE 0) + CountIn(Tail(row), v)

RECURSIVE CountRows(_, _)
CountRows(pixel_data, v) ==
    IF pixel_data = <<>> THEN 0
    ELSE CountIn(Head(pixel_data), v) + CountRows(Tail(pixel_data), v)

\* count_pixels, lines 103-129: <<white_pixels, black_pixels>>
count_pixels(self) ==
    <<CountRows(self.pixel_data, 1), CountRows(self.pixel_data, 0)>>

ReturnsNone == <<>>

\* get_image_info_in_mm, lines 131-164: <<height_mm, width_mm, dpi>>, or
\* None after the AttributeError or ZeroDivisionError its except logs
get_image_info_in_mm(self) ==
    IF ~self.has_resolution THEN ReturnsNone
    ELSE IF self.x_pixels_per_meter = 0 \/ self.y_pixels_per_meter = 0
    THEN ReturnsNone
    ELSE <<RMul(Rat(self.height, self.y_pixels_per_meter), FromInt(1000)),
           RMul(Rat(self.width, self.x_pixels_per_meter), FromInt(1000)),
           RMul(RAdd(RMul(FromInt(self.x_pixels_per_meter),
                          <<10000, 393701>>),
                     RMul(FromInt(self.y_pixels_per_meter),
                          <<10000, 393701>>)), <<1, 2>>)>>

\* the files: absent, cut inside the header, or with 0 .. height rows of
\* pixel bytes behind a whole header
PixelData(n) == UNION {[1..k -> ByteValues] : k \in 0..n}
BmpFiles ==
    {[exists |-> FALSE, fields |-> 0, width |-> 0, height |-> 0,
      x_ppm |-> 0, y_ppm |-> 0, data |-> <<>>]}
    \cup
    {[exists |-> TRUE, fields |-> n, width |-> w, height |-> h,
      x_ppm |-> x, y_ppm |-> y, data |-> <<>>] :
         n \in 0..3, w \in {1, MaxWidth}, h \in 1..MaxHeight,
         x \in Resolutions, y \in Resolutions}
    \cup
    {[exists |-> TRUE, fields |-> 4, width |-> w, height |-> h,
      x_ppm |-> x, y_ppm |-> y, data |-> d] :
         w \in {1, MaxWidth}, h \in 1..MaxHeight,
         x \in Resolutions, y \in Resolutions, d \in PixelData(MaxBytes)}

NoBmpCall == [op |-> "none", value |-> ReturnsNone]

\* the attributes before __init__ has run
NoInstance ==
    [width |-> 0, height |-> 0, pixel_data |-> <<>>,
     has_resolution |-> FALSE, x_pixels_per_meter |-> 0,
     y_pixels_per_meter |-> 0, logged |-> FALSE]

\* bmp_image = MonochromeBMP(filename)
OpenBmp ==
    /\ ~bmp.opened
    /\ bmp' = [bmp EXCEPT !.self = MonochromeBMP(bmp.file),
                          !.opened = TRUE]
    /\ UNCHANGED <<baseVars, power, rounding, tab, ratio, timeRet, compare>>

CountPixels ==
    /\ bmp.opened
    /\ bmp.ret.op # "count_pixels"
    /\ bmp' = [bmp EXCEPT !.ret = [op |-> "count_pixels",
                                   value |-> count_pixels(bmp.self)]]
    /\ UNCHANGED <<baseVars, power, rounding, tab, ratio, timeRet, compare>>

GetImageInfoInMm ==
    /\ bmp.opened
    /\ bmp.ret.op # "get_image_info_in_mm"
    /\ bmp' = [bmp EXCEPT !.ret = [op |-> "get_image_info_in_mm",
                                   value |-> get_image_info_in_mm(bmp.self)]]
    /\ UNCHANGED <<baseVars, power, rounding, tab, ratio, timeRet, compare>>

InitBmp ==
    /\ BaseIdle
    /\ power = None
    /\ rounding = None
    /\ tab = None
    /\ ratio = None
    /\ timeRet = None
    /\ compare = None
    /\ \E f \in BmpFiles :
           bmp = [file |-> f, opened |-> FALSE, self |-> NoInstance,
                  ret |-> NoBmpCall]

NextBmp ==
    \/ OpenBmp
    \/ CountPixels
    \/ GetImageInfoInMm

SpecBmp == InitBmp /\ [][NextBmp]_vars

\* the read failed: no file, a header cut short, or an exception logged
ReadFailed ==
    \/ ~bmp.file.exists
    \/ bmp.file.fields < 4
    \/ bmp.self.logged

\* C21: after a failed read get_image_info_in_mm yields no dimensions and
\* count_pixels reports no pixels of a partially read image.
C21_NoUsableData ==
    (bmp.opened /\ ReadFailed) =>
        /\ bmp.ret.op = "get_image_info_in_mm" =>
               bmp.ret.value = ReturnsNone
        /\ bmp.ret.op = "count_pixels" => bmp.ret.value = <<0, 0>>


-----------------------------------------------------------------------------
(* The count spinboxes after a reset: read-only, so that their values        *)
(* change by the arrows alone, inside the limits from_ and to.              *)

InitSpins ==
    /\ BaseIdle
    /\ power = None
    /\ rounding = None
    /\ ratio = None
    /\ timeRet = None
    /\ LaterIdle
    /\ tab = [ui |-> reset_tab_mian_calculate(InitialUi),
              att |-> InitialAttributes, lbl |-> InitialTabLabels,
              last |-> NoCall, past_cost_text |-> <<>>, edits |-> 0,
              budget |-> MaxSpinEdits]

NextSpins ==
    \/ EditSpinNumber
    \/ BindSpins
    \/ EditSpinGroup
    \/ MainCalculation
    \/ ResetResults

SpecSpins == InitSpins /\ [][NextSpins]_vars

\* C22: the gang size a calculation reads is at most the quantity it reads.
C22_GangWithinQuantity ==
    tab.last.called =>
        Value(tab.last.ui.spin_group) <= Value(tab.last.ui.spin_number)


-----------------------------------------------------------------------------
(* Further properties of ContainerPacking.                                  *)

\* the product has positive width and height (every sheet in Sheets has)
PositiveItem == pack.width > 0 /\ pack.height > 0

\* C23: for a product with positive dimensions figure_1 and figure_2 each
\* return a count >= 0.
C23_CountsNonNegative ==
    (PositiveItem /\ packRet.calls = 1
                  /\ packRet.method \in {"figure_1", "figure_2"}) =>
        packRet.value >= 0

\* C24: the count returned by figure_1 and by figure_2 times the area of
\* the product is at most the usable area 0.9 * sheetWidth * sheetHeight.
C24_AreaFeasible ==
    (PositiveItem /\ packRet.calls = 1
                  /\ packRet.method \in {"figure_1", "figure_2"}) =>
        RLeq(FromInt(packRet.value * pack.width * pack.height),
             RMul(pack.w_big, FromInt(pack.h_big)))


\* the instance as __init__ leaves it, for the same product and sheet
Fresh(p) ==
    [p EXCEPT !.figure_per_rows = 0, !.figure_per_columns = 0,
              !.total_1 = 0, !.total_2 = 0]

\* C25: every call of figure_1, and of figure_2, returns what the first
\* call on the instance returned, however the calls interleave.
C25_Repeatable ==
    /\ packRet.method = "figure_1" =>
           packRet.value = figure_1(Fresh(pack)).total_1
    /\ packRet.method = "figure_2" =>
           packRet.value = figure_2(Fresh(pack)).total_2


-----------------------------------------------------------------------------
(* Further properties of DeepEngraving.depth_calculate.                     *)

\* C26: whenever depth_calculate returns a non-empty plan
\* [cycles, passesPerCycle, stepDepth, endingPasses], the plan has at least
\* one cycle and cycles * passesPerCycle + endingPasses is the number of
\* passes returned; a depth above stepDepth always returns such a plan.
C26_PlanAccountsForPasses ==
    (depthRet.called /\ depthRet.out.kind = "list") =>
        LET plan == depthRet.out.power_list
        IN  /\ plan # <<>> =>
                   /\ Len(plan) = 4
                   /\ plan[1] >= 1
                   /\ plan[1] * plan[2] + plan[4] = depthRet.out.result
            /\ depthRet.depth > StepDepth => plan # <<>>

\* three cycles of three passes and a remnant of one pass: depth 7, step 2
C26_Witness ==
    /\ depthRet.called
    /\ DepthProfileOk
    /\ depthRet.depth = 7
    /\ StepDepth = 2
    /\ PassesPerStep = 3
    /\ depthRet.out.power_list = <<3, 3, 2, 1>>
    /\ depthRet.out.result = 10


-----------------------------------------------------------------------------
(* Further properties of Interpolation.get_cost.                            *)

\* the tabulated prices get_cost interpolates between: the lower and the
\* upper rung of the one or two resolved rows
TabulatedPrices ==
    UNION {{PyAt(CostList(grid, keys[i]), lower_index),
            PyAt(CostList(grid, keys[i]), bigger_index)} :
               i \in 1..Len(keys)}

\* C27: get_cost returns a value between the least and the greatest of the
\* tabulated prices it interpolates between.
C27_InsideTable ==
    query.op = "get_cost" =>
        /\ cost # ZeroDivisionError
        /\ \E p \in TabulatedPrices : RLeq(FromInt(p), cost)
        /\ \E p \in TabulatedPrices : RLeq(cost, FromInt(p))

\* a size between two rows and a quantity between two rungs, priced
\* strictly inside the four tabulated prices
C27_Witness ==
    /\ query.op = "get_cost"
    /\ Len(keys) = 2
    /\ lower_index # bigger_index
    /\ cost # ZeroDivisionError
    /\ \E p \in TabulatedPrices : p # Trunc(cost) /\ RLeq(FromInt(p), cost)
    /\ \E p \in TabulatedPrices : p # Trunc(cost) /\ RLeq(cost, FromInt(p))
    /\ \A p \in TabulatedPrices : cost # FromInt(p)


\* the last rung of the quantity ladder
LastRung == numbering_list[Len(numbering_list)]

\* C28: a quantity above the last rung is priced like the last rung and a
\* quantity below 1 like 1, without raising; both bound indices then denote
\* the same rung.
C28_ClampToEnds ==
    (query.op = "get_cost" /\ (query.num > LastRung \/ query.num < 1)) =>
        LET end == IF query.num < 1 THEN numbering_list[1] ELSE LastRung
        IN  /\ cost # ZeroDivisionError
            /\ cost = get_cost(grid, query.height, query.width, end).value
            /\ PyAt(numbering_list, lower_index) = end
            /\ PyAt(numbering_list, bigger_index) = end

\* 1001 pieces of a size between two rows, priced like 1000 pieces and
\* unlike 500
C28_Witness ==
    /\ query.op = "get_cost"
    /\ query.num > LastRung
    /\ Len(keys) = 2
    /\ cost = get_cost(grid, query.height, query.width, LastRung).value
    /\ cost # get_cost(grid, query.height, query.width, 500).value
    /\ lower_index = 6
    /\ bigger_index = -1


-----------------------------------------------------------------------------
(* One order: several calculations added up by the button "add".            *)

MaxAdds == 3        \* presses of btn_add_calculate between two resets

\* btn_add_calculate, main.py 971-976
AddNewCalc ==
    /\ Len(tab.past_cost_text) < MaxAdds
    /\ tab' = add_new_calc(tab)
    /\ OthersUnchanged

InitOrder ==
    /\ BaseIdle
    /\ power = None
    /\ rounding = None
    /\ ratio = None
    /\ timeRet = None
    /\ LaterIdle
    /\ tab = [ui |-> InitialUi, att |-> InitialAttributes,
              lbl |-> InitialTabLabels, last |-> NoCall,
              past_cost_text |-> <<>>, edits |-> 0,
              budget |-> MaxSpinEdits]

NextOrder ==
    \/ SelectProduct
    \/ EditSpinNumber
    \/ EditDesign
    \/ MainCalculation
    \/ AddNewCalc
    \/ ResetResults

SpecOrder == InitOrder /\ [][NextOrder]_vars

\* the sum of the amounts the presses of "add" captured since the last reset
RECURSIVE Captured(_)
Captured(amounts) ==
    IF amounts = <<>> THEN FromInt(0)
    ELSE RAdd(amounts[1], Captured(Tail(amounts)))

\* the amount a calculation stores when nothing was stored before it
FreshAmount(t) ==
    main_calculation(
        [t EXCEPT !.att.present_cost = FromInt(0)]).att.present_cost

\* C29: total_cost is the sum of the amounts captured by add_new_calc since
\* the last reset_results; add_new_calc keeps total_cost + present_cost and
\* zeroes present_cost; main_calculation keeps total_cost and stores an
\* amount that does not depend on the one stored before (a call that raised
\* stores nothing); reset_results zeroes the three amounts.
C29_MoneyConserved ==
    /\ [](tab.att.total_cost = Captured(tab.past_cost_text))
    /\ [][/\ AddNewCalc =>
              /\ RAdd(tab'.att.total_cost, tab'.att.present_cost)
                     = RAdd(tab.att.total_cost, tab.att.present_cost)
              /\ tab'.att.present_cost = FromInt(0)
              /\ tab'.past_cost_text
                     = Append(tab.past_cost_text, tab.att.present_cost)
          /\ MainCalculation =>
              /\ tab'.att.total_cost = tab.att.total_cost
              /\ tab'.past_cost_text = tab.past_cost_text
              /\ tab'.att.present_cost =
                     IF tab'.last.computed THEN FreshAmount(tab)
                     ELSE tab.att.present_cost
          /\ ResetResults =>
              /\ tab'.att.total_cost = FromInt(0)
              /\ tab'.att.present_cost = FromInt(0)
              /\ tab'.att.past_cost = FromInt(0)
              /\ tab'.past_cost_text = <<>>]_vars

\* two different amounts were added and a third one is being shown
C29_Witness ==
    /\ Len(tab.past_cost_text) = 2
    /\ tab.past_cost_text[1] # tab.past_cost_text[2]
    /\ tab.past_cost_text[1] # FromInt(0)
    /\ tab.past_cost_text[2] # FromInt(0)
    /\ tab.att.total_cost
           = RAdd(tab.past_cost_text[1], tab.past_cost_text[2])
    /\ tab.last.computed
    /\ tab.att.present_cost # FromInt(0)
    /\ tab.att.past_cost = tab.past_cost_text[2]


-----------------------------------------------------------------------------
(* round_result on two costs a <= b.                                        *)

MaxGap == 12        \* b - a is at most MaxGap half-units

\* the two calls of round_result, main.py 157-171
RoundBoth ==
    /\ ~compare.called
    /\ compare' = [compare EXCEPT !.called = TRUE,
                                  !.ra = round_result(compare.a),
                                  !.rb = round_result(compare.b)]
    /\ UNCHANGED <<baseVars, power, rounding, tab, ratio, timeRet, bmp>>

InitCompare ==
    /\ BaseIdle
    /\ power = None
    /\ rounding = None
    /\ tab = None
    /\ ratio = None
    /\ timeRet = None
    /\ bmp = None
    /\ \E k \in -(2 * MaxLoss) .. 2 * MaxCost :
           \E gap \in 0 .. MaxGap :
               compare = [a |-> Rat(k, 2), b |-> Rat(k + gap, 2),
                          called |-> FALSE, ra |-> 0, rb |-> 0]

SpecCompare == InitCompare /\ [][RoundBoth]_vars

\* C30: round_result is monotone: a <= b gives
\* round_result(a) <= round_result(b), across the thresholds 85, 250 and
\* 800 and at the half-way ties too.
C30_Monotone ==
    (compare.called /\ RLeq(compare.a, compare.b)) =>
        compare.ra <= compare.rb

\* 795 is a tie of the tier of 10 and rounds to 800, as 800 in the tier of
\* 50 does
C30_Witness ==
    /\ compare.called
    /\ compare.a = FromInt(795)
    /\ compare.b = FromInt(800)
    /\ compare.ra = 800
    /\ compare.rb = 800

=============================================================================
